---- MODULE Spec2Model ----
(***************************************************************************)
(* A model of the intent-to-action pipeline of the dashboard agent:        *)
(*   ai_agent/intent_parser.py     IntentParser                            *)
(*   ai_agent/action_generator.py  ActionGenerator                         *)
(*   ai_agent/agent.py             DashboardAgent                          *)
(*                                                                         *)
(* Python values are modelled as strings.  A real Python string is the     *)
(* TLA+ string itself; the values that are not strings are the reserved    *)
(* spellings below (no program string starts with "<").  A mapping is a    *)
(* record of fixed shape whose missing keys hold Absent.                   *)
(***************************************************************************)
EXTENDS Integers, Sequences, FiniteSets, TLC

VARIABLES
    pc,         \* position of the operation under study
    text,       \* the LLM Gateway's raw response, a sequence of text fragments
    llm,        \* outcome of the LLM Gateway's generate call: [raised, text]
    command,    \* the user's command string
    catalog,    \* the Column Catalog: a sequence of [name, type]
    dashboard,  \* the Dashboard snapshot handed to the pipeline
    rows,       \* the dataset rows handed to the orchestrator
    env,        \* the narrative provider and uuid source: [init, gen, seed]
    intent,     \* the Intent produced / consumed
    action,     \* the Action returned by generate_action / process_command
    ran,        \* the stages run: subset of {"generate","extract","validate","rules"}
    history,    \* DashboardAgent.conversation_history
    second,     \* the Action a repeated generate_action call returns
    evaluator,  \* the process-wide AgentEvaluator: [current_task_id, start_time, evaluation_history]
    req,        \* the locals of each /ai/process request: [pc, command, task_id, start_time]
    running,    \* the request whose handler the event loop is executing, 0 when it is idle
    clock,      \* time.time(), counted in readings
    parser      \* an IntentParser under construction: its environment and the client it holds

\* the variables only the later specifications move
aux == <<second, evaluator, req, running, clock, parser>>
vars == <<pc, text, llm, command, catalog, dashboard, rows, env, intent, action, ran, history, aux>>

(***************************************************************************)
(* Python values                                                           *)
(***************************************************************************)
Absent == "<absent>"    \* the key is not in the mapping
Null   == "<null>"      \* None / JSON null
NumV   == "<num>"       \* a non-zero number where a string was expected
ListV  == "<list>"      \* a non-empty list where a string or mapping was expected
Raised == "<raised>"    \* an exception escaped the call

NonStrings == {Absent, Null, NumV, ListV, Raised}
IsStr(v) == v \notin NonStrings
\* Python truthiness of a value: None and "" are falsy
Truthy(v) == v \notin {Absent, Null, ""}

(***************************************************************************)
(* str operations                                                          *)
(***************************************************************************)
\* a in b  (Python substring test)
IsSubstr(a, b) == \E i \in 0..(Len(b) - Len(a)) : SubSeq(b, i + 1, i + Len(a)) = a

LowerAlphabet == "abcdefghijklmnopqrstuvwxyz"
UpperAlphabet == "ABCDEFGHIJKLMNOPQRSTUVWXYZ"
CharAt(s, i) == SubSeq(s, i, i)
IsLowerChar(c) == \E k \in 1..26 : CharAt(LowerAlphabet, k) = c
IsUpperChar(c) == \E k \in 1..26 : CharAt(UpperAlphabet, k) = c
IsLetter(c) == IsLowerChar(c) \/ IsUpperChar(c)
LowerChar(c) ==
    IF IsUpperChar(c)
    THEN CharAt(LowerAlphabet, CHOOSE k \in 1..26 : CharAt(UpperAlphabet, k) = c)
    ELSE c
UpperChar(c) ==
    IF IsLowerChar(c)
    THEN CharAt(UpperAlphabet, CHOOSE k \in 1..26 : CharAt(LowerAlphabet, k) = c)
    ELSE c

\* The character-wise conversions build their result by halves: s[lo..hi] converted.
RECURSIVE LowerRange(_, _, _)
LowerRange(s, lo, hi) ==
    IF lo > hi THEN ""
    ELSE IF lo = hi THEN LowerChar(CharAt(s, lo))
    ELSE LowerRange(s, lo, (lo + hi) \div 2) \o LowerRange(s, (lo + hi) \div 2 + 1, hi)
\* str.lower()
Lower(s) == LowerRange(s, 1, Len(s))

RECURSIVE ReplaceRange(_, _, _, _, _)
ReplaceRange(s, lo, hi, old, new) ==
    IF lo > hi THEN ""
    ELSE IF lo = hi THEN (IF CharAt(s, lo) = old THEN new ELSE CharAt(s, lo))
    ELSE ReplaceRange(s, lo, (lo + hi) \div 2, old, new)
            \o ReplaceRange(s, (lo + hi) \div 2 + 1, hi, old, new)
\* str.replace(old, new) for a one-character old
Replace(s, old, new) == ReplaceRange(s, 1, Len(s), old, new)

RECURSIVE TitleRange(_, _, _)
TitleRange(s, lo, hi) ==
    IF lo > hi THEN ""
    ELSE IF lo = hi
         THEN (IF lo > 1 /\ IsLetter(CharAt(s, lo - 1))
               THEN LowerChar(CharAt(s, lo))
               ELSE UpperChar(CharAt(s, lo)))
    ELSE TitleRange(s, lo, (lo + hi) \div 2) \o TitleRange(s, (lo + hi) \div 2 + 1, hi)
\* str.title(): a letter is upper-cased after a non-letter, lower-cased after a letter
TitleCase(s) == TitleRange(s, 1, Len(s))

\* name.replace('_', ' ').title()
Pretty(name) == TitleCase(Replace(name, "_", " "))

(***************************************************************************)
(* Mappings of fixed shape                                                 *)
(***************************************************************************)
\* Intent.parameters.  kind is "dict" for a mapping; Null, NumV, ListV or
\* "str" when the LLM emitted something else under the key "parameters".
\* others: the keys of the mapping that no handler reads.
NoWidgets == [kind |-> Absent, items |-> <<>>]
NoParams ==
    [kind |-> "dict", chart_type |-> Absent, type |-> Absent, x_axis |-> Absent,
     y_axis |-> Absent, title |-> Absent, new_title |-> Absent, aggregation |-> Absent,
     question |-> Absent, chart_id |-> Absent, value |-> Absent, limit |-> Absent,
     column |-> Absent, operator |-> Absent, sort_by |-> Absent, order |-> Absent,
     widgets |-> NoWidgets, others |-> {}]
\* one entry of parameters["widgets"]; kind as for parameters
NoWidget ==
    [kind |-> "dict", chart_type |-> Absent, x_axis |-> Absent, y_axis |-> Absent, title |-> Absent]
NotAMapping(k) == [NoParams EXCEPT !.kind = k]
AbsentParams == NotAMapping(Absent)

\* An Intent (a Python dict): a missing key holds Absent.
NoIntent ==
    [action_type |-> Absent, target_component |-> Absent, parameters |-> AbsentParams,
     explanation |-> Absent, user_command |-> Absent]

(***************************************************************************)
(* IntentParser._extract_json_strict                                       *)
(*                                                                         *)
(* The response text is a sequence of fragments; the text is their         *)
(* concatenation.  The regular expressions look only at braces, fences     *)
(* and whitespace, which are fragments of their own.                       *)
(***************************************************************************)
LB == "{"
RB == "}"
WS == "\n"
\* a fence is three backquotes, spelled <fence> here (a TLA+ string cannot hold a backquote)
FenceJson == "<fence>json"
Fence == "<fence>"
Prose == "Sure, here is the action:"
\* the body of the object {"action_type": "add_chart", "parameters": {}} up to its nested mapping
KeyAdd == "\"action_type\": \"add_chart\", \"parameters\": "
\* the body of the object {"action_type": "remove_chart"}
KeyRemove == "\"action_type\": \"remove_chart\""
Fragments == {LB, RB, WS, FenceJson, Fence, Prose, KeyAdd, KeyRemove}

TargetText == <<LB, KeyAdd, LB, RB, RB>>
TargetObject == [NoIntent EXCEPT !.action_type = "add_chart", !.parameters = NoParams]
DecoyText == <<LB, KeyRemove, RB>>

RECURSIVE Without(_, _)
Without(s, drop) ==
    IF s = <<>> THEN <<>>
    ELSE IF Head(s) \in drop THEN Without(Tail(s), drop)
    ELSE <<Head(s)>> \o Without(Tail(s), drop)

\* Further object bodies a response can hold.  A body without a nested mapping:
KeyRemoveNullExplanation ==
    "\"action_type\": \"remove_chart\", \"target_component\": \"c1\", \"explanation\": null"
KeyAddNullParameters ==
    "\"action_type\": \"add_chart\", \"parameters\": null, \"explanation\": \"Adding a chart\""
KeyDance == "\"action_type\": \"dance\""
KeyExplain ==
    "\"action_type\": \"explain_chart\", \"target_component\": \"c1\", \"explanation\": \"Explaining the chart\""
\* a body up to its nested parameters mapping, and the body of that mapping
KeyAnswer ==
    "\"action_type\": \"answer_question\", \"explanation\": \"Answering your question\", \"parameters\": "
ParamQuestion == "\"question\": \"what is the total revenue\""

\* what json.loads makes of {body}
FlatObjects ==
    (KeyRemove :> [NoIntent EXCEPT !.action_type = "remove_chart"])
    @@ (KeyRemoveNullExplanation :>
            [NoIntent EXCEPT !.action_type = "remove_chart", !.target_component = "c1",
                             !.explanation = Null])
    @@ (KeyAddNullParameters :>
            [NoIntent EXCEPT !.action_type = "add_chart", !.parameters = NotAMapping(Null),
                             !.explanation = "Adding a chart"])
    @@ (KeyDance :> [NoIntent EXCEPT !.action_type = "dance"])
    @@ (KeyExplain :>
            [NoIntent EXCEPT !.action_type = "explain_chart", !.target_component = "c1",
                             !.explanation = "Explaining the chart"])
\* what json.loads makes of {body <mapping>}, but for the parameters
NestingObjects ==
    (KeyAdd :> [NoIntent EXCEPT !.action_type = "add_chart"])
    @@ (KeyAnswer :> [NoIntent EXCEPT !.action_type = "answer_question",
                                      !.explanation = "Answering your question"])
ParameterObjects ==
    (ParamQuestion :> [NoParams EXCEPT !.question = "what is the total revenue"])

\* json.loads on a string of fragments: [ok, val].  ok = FALSE is JSONDecodeError.
\* The decodable texts are the objects {}, {body} and {body <object>}.
NotJson == [ok |-> FALSE, val |-> NoIntent]
RECURSIVE DecodeObject(_)
\* a nested object read as the parameters mapping
DecodeParameters(s) ==
    IF Len(s) = 3 /\ s[1] = LB /\ s[3] = RB /\ s[2] \in DOMAIN ParameterObjects
    THEN [ok |-> TRUE, val |-> ParameterObjects[s[2]]]
    ELSE LET inner == DecodeObject(s)
             keys == {k \in DOMAIN NoIntent :
                         inner.val[k] # IF k = "parameters" THEN AbsentParams ELSE Absent}
         IN  [ok |-> inner.ok, val |-> [NoParams EXCEPT !.others = keys]]
DecodeObject(s) ==
    IF Len(s) < 2 \/ s[1] # LB \/ s[Len(s)] # RB THEN NotJson
    ELSE IF Len(s) = 2 THEN [ok |-> TRUE, val |-> NoIntent]
    ELSE IF Len(s) = 3 /\ s[2] \in DOMAIN FlatObjects THEN [ok |-> TRUE, val |-> FlatObjects[s[2]]]
    ELSE IF s[2] \in DOMAIN NestingObjects
         THEN LET inner == DecodeParameters(SubSeq(s, 3, Len(s) - 1))
              IN  IF inner.ok
                  THEN [ok |-> TRUE, val |-> [NestingObjects[s[2]] EXCEPT !.parameters = inner.val]]
                  ELSE NotJson
    ELSE NotJson
JsonLoads(s) == DecodeObject(Without(s, {WS}))

IsBrace(t) == t \in {LB, RB}
RECURSIVE NextBrace(_, _)
\* the first position >= j holding a brace, Len(s) + 1 if there is none
NextBrace(s, j) == IF j > Len(s) \/ IsBrace(s[j]) THEN j ELSE NextBrace(s, j + 1)

\* r'\{[^{}]*(?:\{[^{}]*\}[^{}]*)*\}' tried at position i: the end of the match, 0 if none.
\* k is the first brace after the opening brace or after the last inner group.
RECURSIVE BalancedEnd(_, _)
BalancedEnd(s, k) ==
    IF k > Len(s) THEN 0
    ELSE IF s[k] = RB THEN k
    ELSE LET m == NextBrace(s, k + 1)
         IN  IF m > Len(s) \/ s[m] # RB THEN 0 ELSE BalancedEnd(s, NextBrace(s, m + 1))
Pattern1End(s, i) == IF s[i] = LB THEN BalancedEnd(s, NextBrace(s, i + 1)) ELSE 0

RECURSIVE NextOf(_, _, _)
\* the first position >= j holding a fragment of set, Len(s) + 1 if there is none
NextOf(s, j, set) == IF j > Len(s) \/ s[j] \in set THEN j ELSE NextOf(s, j + 1, set)

\* r'\{.*?\}' tried at position i (DOTALL): up to the first closing brace
Pattern2End(s, i) ==
    IF s[i] = LB /\ NextOf(s, i + 1, {RB}) <= Len(s) THEN NextOf(s, i + 1, {RB}) ELSE 0

RECURSIVE SkipWs(_, _)
SkipWs(s, j) == IF j <= Len(s) /\ s[j] = WS THEN SkipWs(s, j + 1) ELSE j

\* r'(\{.*?\})\s*<fence>' from the opening brace at b: the first closing brace that
\* whitespace and a fence follow (the json fence starts with a fence).  [last, stop]:
\* the group ends at last and the match at stop; last = 0 if none.
RECURSIVE FencedGroup(_, _)
FencedGroup(s, j) ==
    LET r == NextOf(s, j, {RB})
        f == SkipWs(s, r + 1)
    IN  IF r > Len(s) THEN [last |-> 0, stop |-> 0]
        ELSE IF f <= Len(s) /\ s[f] \in {Fence, FenceJson} THEN [last |-> r, stop |-> f]
        ELSE FencedGroup(s, r + 1)

\* r'<fence>json\s*(\{.*?\})\s*<fence>' (open = FenceJson) and r'<fence>\s*(\{.*?\})\s*<fence>'
\* (open = Fence) tried at position i: [first, last, stop], last = 0 if none
FencedMatch(s, i, open) ==
    LET b == SkipWs(s, i + 1)
    IN  IF s[i] = open /\ b <= Len(s) /\ s[b] = LB
        THEN [first |-> b] @@ FencedGroup(s, b + 1)
        ELSE [first |-> 0, last |-> 0, stop |-> 0]

\* re.findall(pattern, text, re.DOTALL): the matches left to right, not overlapping;
\* for the fenced patterns the text of the group.
RECURSIVE FindAll(_, _, _)
FindAll(s, i, pattern) ==
    IF i > Len(s) THEN <<>>
    ELSE IF pattern = 1 /\ Pattern1End(s, i) > 0
         THEN <<SubSeq(s, i, Pattern1End(s, i))>> \o FindAll(s, Pattern1End(s, i) + 1, pattern)
    ELSE IF pattern = 2 /\ Pattern2End(s, i) > 0
         THEN <<SubSeq(s, i, Pattern2End(s, i))>> \o FindAll(s, Pattern2End(s, i) + 1, pattern)
    ELSE IF pattern \in {3, 4}
            /\ FencedMatch(s, i, IF pattern = 3 THEN FenceJson ELSE Fence).last > 0
         THEN LET m == FencedMatch(s, i, IF pattern = 3 THEN FenceJson ELSE Fence)
              IN  <<SubSeq(s, m.first, m.last)>> \o FindAll(s, m.stop + 1, pattern)
    ELSE FindAll(s, i + 1, pattern)

\* the matches of the four json_patterns, in the order the two loops try them
Candidates(s) == FindAll(s, 1, 1) \o FindAll(s, 1, 2) \o FindAll(s, 1, 3) \o FindAll(s, 1, 4)

\* Strategy 1: the first match that decodes to a mapping with the key action_type
RECURSIVE FirstAccepted(_)
FirstAccepted(ms) ==
    IF ms = <<>> THEN NotJson
    ELSE IF JsonLoads(Head(ms)).ok /\ JsonLoads(Head(ms)).val.action_type # Absent
         THEN JsonLoads(Head(ms))
    ELSE FirstAccepted(Tail(ms))

RECURSIVE StripLeft(_)
StripLeft(s) == IF s # <<>> /\ Head(s) = WS THEN StripLeft(Tail(s)) ELSE s
RECURSIVE StripRight(_)
StripRight(s) == IF s # <<>> /\ s[Len(s)] = WS THEN StripRight(SubSeq(s, 1, Len(s) - 1)) ELSE s
\* str.strip()
Strip(s) == StripRight(StripLeft(s))

\* re.sub(fence + r'\s*', '', s)
RECURSIVE RemoveFence(_, _)
RemoveFence(s, fence) ==
    IF s = <<>> THEN <<>>
    ELSE IF Head(s) = fence THEN RemoveFence(StripLeft(Tail(s)), fence)
    ELSE <<Head(s)>> \o RemoveFence(Tail(s), fence)

RECURSIVE LastOf(_, _, _)
\* str.rfind: the last position <= j holding t, 0 if there is none
LastOf(s, j, t) == IF j = 0 \/ s[j] = t THEN j ELSE LastOf(s, j - 1, t)

Cleaned(s) == Strip(RemoveFence(RemoveFence(Strip(s), FenceJson), Fence))

\* Strategy 3: the sentinel
UnknownSentinel ==
    [NoIntent EXCEPT !.action_type = "unknown", !.target_component = Null,
                     !.parameters = NoParams,
                     !.explanation = "Could not parse JSON from response. Please try rephrasing your command."]

\* Strategy 2 falling through without the sentinel of Strategy 3
Strategy2_without_sentinel(s) ==
    LET c == Cleaned(s)
    IN  JsonLoads(SubSeq(c, NextOf(c, 1, {LB}), LastOf(c, Len(c), RB))).val

\* Strategy 2: the text between the first "{" and the last "}" of the cleaned
\* response, accepted when it decodes to any mapping; else Strategy 3
Strategy2(s) ==
    LET c == Cleaned(s)
        start == NextOf(c, 1, {LB})
        end == LastOf(c, Len(c), RB)
    IN  IF start <= Len(c) /\ end # 0 /\ end > start /\ JsonLoads(SubSeq(c, start, end)).ok
        THEN JsonLoads(SubSeq(c, start, end)).val
        ELSE UnknownSentinel

\* the extractor without Strategy 1
extract_without_patterns(s) == Strategy2(s)

_extract_json_strict(s) ==
    IF FirstAccepted(Candidates(s)).ok THEN FirstAccepted(Candidates(s)).val ELSE Strategy2(s)

(***************************************************************************)
(* IntentParser._validate_action                                           *)
(***************************************************************************)
valid_actions ==
    <<"generate_dashboard", "add_chart", "modify_chart", "remove_chart", "explain_chart",
      "answer_question", "filter_data", "transform_data", "update_kpi", "rename_component",
      "unknown">>
ValidActionSet == {valid_actions[i] : i \in DOMAIN valid_actions}

RECURSIVE Join(_, _)
\* sep.join(seq)
Join(seq, sep) ==
    IF seq = <<>> THEN ""
    ELSE IF Len(seq) = 1 THEN seq[1]
    ELSE seq[1] \o sep \o Join(Tail(seq), sep)

\* the four "not in action" defaults
FillDefaults(a) ==
    [a EXCEPT
        !.action_type = IF @ = Absent THEN "unknown" ELSE @,
        !.target_component = IF @ = Absent THEN Null ELSE @,
        !.parameters = IF @.kind = Absent THEN NoParams ELSE @,
        !.explanation = IF @ = Absent THEN "Processing your request." ELSE @]

\* the validator without its vocabulary check
keep_action_type(a) == a

\* action["action_type"] not in valid_actions
CoerceActionType(a) ==
    IF a.action_type \notin ValidActionSet
    THEN [a EXCEPT !.action_type = "unknown",
                   !.explanation = "Unknown action type. Available: " \o Join(valid_actions, ", ")]
    ELSE a

_validate_action(a) == CoerceActionType(FillDefaults(a))

(***************************************************************************)
(* IntentParser._rule_based_parse                                          *)
(***************************************************************************)
visualization_keywords ==
    <<"chart", "graph", "visualization", "visualize", "plot", "show", "display", "create",
      "add", "make", "generate">>
\* chart_type_keywords, in the dict's insertion order
chart_type_keywords ==
    <<<<"bar", "bar_chart">>, <<"line", "line_chart">>, <<"pie", "pie_chart">>, <<"kpi", "kpi">>,
      <<"metric", "kpi">>, <<"total", "kpi">>, <<"table", "table">>>>
metric_keywords ==
    <<"revenue", "sales", "quantity", "amount", "price", "cost", "profit", "total", "sum", "count">>
category_keywords == <<"category", "region", "product", "date", "time", "month", "year", "day">>

\* any(word in s for word in words)
AnyIn(words, s) == \E i \in DOMAIN words : IsSubstr(words[i], s)

RECURSIVE ChartTypeOf(_, _)
\* the first keyword of chart_type_keywords[i..] in the command, default "bar_chart"
ChartTypeOf(cl, i) ==
    IF i > Len(chart_type_keywords) THEN "bar_chart"
    ELSE IF IsSubstr(chart_type_keywords[i][1], cl) THEN chart_type_keywords[i][2]
    ELSE ChartTypeOf(cl, i + 1)

RECURSIVE NamesOfType(_, _)
\* [c.get('name') for c in available_columns if c.get('type') in types]
NamesOfType(cat, types) ==
    IF cat = <<>> THEN <<>>
    ELSE (IF Head(cat).type \in types THEN <<Head(cat).name>> ELSE <<>>) \o NamesOfType(Tail(cat), types)

Digits == "0123456789"
IsDigit(c) == \E k \in 1..10 : CharAt(Digits, k) = c
\* \w and \s
IsWordChar(c) == IsLetter(c) \/ IsDigit(c) \/ c = "_"
IsSpace(c) == c = " " \/ c = "\n"

RECURSIVE WordEnd(_, _)
\* the last position of the run of \w starting at i (i - 1 if s[i] is not \w)
WordEnd(s, i) == IF i <= Len(s) /\ IsWordChar(CharAt(s, i)) THEN WordEnd(s, i + 1) ELSE i - 1
RECURSIVE SpaceEnd(_, _)
SpaceEnd(s, i) == IF i <= Len(s) /\ IsSpace(CharAt(s, i)) THEN SpaceEnd(s, i + 1) ELSE i - 1

\* r'(\w+)\s+by\s+(\w+)' tried at position i: [ok, metric, category]
ByMatchAt(s, i) ==
    LET e1 == WordEnd(s, i)
        e2 == SpaceEnd(s, e1 + 1)
        e3 == e2 + 2
        e4 == SpaceEnd(s, e3 + 1)
        e5 == WordEnd(s, e4 + 1)
    IN  IF e1 >= i /\ e2 > e1 /\ e3 <= Len(s) /\ SubSeq(s, e2 + 1, e3) = "by"
           /\ e4 > e3 /\ e5 > e4
        THEN [ok |-> TRUE, metric |-> SubSeq(s, i, e1), category |-> SubSeq(s, e4 + 1, e5)]
        ELSE [ok |-> FALSE, metric |-> "", category |-> ""]
RECURSIVE BySearch(_, _)
\* re.search: the leftmost match
BySearch(s, i) ==
    IF i > Len(s) THEN [ok |-> FALSE, metric |-> "", category |-> ""]
    ELSE IF ByMatchAt(s, i).ok THEN ByMatchAt(s, i)
    ELSE BySearch(s, i + 1)

\* axes: [x, y], Null while not found
NoAxes == [x |-> Null, y |-> Null]

RECURSIVE Pattern1(_, _, _, _)
\* Pattern 1, the loop over the columns: a later matching column overwrites an earlier one
Pattern1(cat, metric, category, ax) ==
    IF cat = <<>> THEN ax
    ELSE LET col == Head(cat)
             n == Lower(col.name)
             y == IF (IsSubstr(metric, n) \/ IsSubstr(n, metric)) /\ col.type = "numeric"
                  THEN col.name ELSE ax.y
             x == IF (IsSubstr(category, n) \/ IsSubstr(n, category)) /\ col.type \in {"string", "date"}
                  THEN col.name ELSE ax.x
         IN  Pattern1(Tail(cat), metric, category, [x |-> x, y |-> y])

RECURSIVE Pattern2(_, _, _)
\* Pattern 2, the loop over the columns: the first column named in the command, per axis
Pattern2(cat, cl, ax) ==
    IF cat = <<>> THEN ax
    ELSE LET col == Head(cat)
             n == Lower(col.name)
             clean == Replace(Replace(n, "_", " "), "-", " ")
             named == IsSubstr(n, cl) \/ IsSubstr(clean, cl)
             next == IF named /\ col.type = "numeric" /\ ~Truthy(ax.y) THEN [ax EXCEPT !.y = col.name]
                     ELSE IF named /\ col.type \in {"string", "date"} /\ ~Truthy(ax.x)
                          THEN [ax EXCEPT !.x = col.name]
                     ELSE ax
         IN  Pattern2(Tail(cat), cl, next)

RECURSIVE FirstColumnWith(_, _, _)
\* the inner loops of Patterns 3 and 4: the first column of a type in `types` whose
\* lower-cased name contains the keyword, Null if there is none
FirstColumnWith(cat, keyword, types) ==
    IF cat = <<>> THEN Null
    ELSE IF IsSubstr(keyword, Lower(Head(cat).name)) /\ Head(cat).type \in types THEN Head(cat).name
    ELSE FirstColumnWith(Tail(cat), keyword, types)

RECURSIVE KeywordAxis(_, _, _, _, _, _)
\* the outer loops of Patterns 3 and 4 over keywords[i..], for one axis
KeywordAxis(keywords, i, cl, cat, types, axis) ==
    IF i > Len(keywords) THEN axis
    ELSE IF IsSubstr(keywords[i], cl) /\ ~Truthy(axis) /\ FirstColumnWith(cat, keywords[i], types) # Null
         THEN KeywordAxis(keywords, i + 1, cl, cat, types, FirstColumnWith(cat, keywords[i], types))
    ELSE KeywordAxis(keywords, i + 1, cl, cat, types, axis)

\* the matcher without its defaults
without_default_axes(cat, ax) == ax

\* "Defaults if still not found"
DefaultAxes(cat, ax) ==
    LET numeric_cols == NamesOfType(cat, {"numeric"})
        string_cols == NamesOfType(cat, {"string"})
        date_cols == NamesOfType(cat, {"date"})
    IN  [x |-> IF ~Truthy(ax.x)
               THEN IF date_cols # <<>> THEN date_cols[1]
                    ELSE IF string_cols # <<>> THEN string_cols[1] ELSE ax.x
               ELSE ax.x,
         y |-> IF ~Truthy(ax.y) /\ numeric_cols # <<>> THEN numeric_cols[1] ELSE ax.y]

\* the x_axis / y_axis of the add_chart intent
RuleAxes(cl, cat) ==
    LET by == BySearch(cl, 1)
        a1 == IF by.ok THEN Pattern1(cat, by.metric, by.category, NoAxes) ELSE NoAxes
        a2 == IF ~Truthy(a1.x) \/ ~Truthy(a1.y) THEN Pattern2(cat, cl, a1) ELSE a1
        a3 == [a2 EXCEPT !.y = KeywordAxis(metric_keywords, 1, cl, cat, {"numeric"}, a2.y)]
        a4 == [a3 EXCEPT !.x = KeywordAxis(category_keywords, 1, cl, cat, {"string", "date"}, a3.x)]
    IN  DefaultAxes(cat, a4)

RuleIntent(type, params, explanation) ==
    [NoIntent EXCEPT !.action_type = type, !.target_component = Null,
                     !.parameters = params, !.explanation = explanation]

_rule_based_parse(cmd, dash, cat) ==
    LET cl == Lower(cmd)
        chart_type == ChartTypeOf(cl, 1)
        ax == RuleAxes(cl, cat)
    IN  IF AnyIn(visualization_keywords, cl)
        THEN RuleIntent("add_chart",
                        [NoParams EXCEPT !.chart_type = chart_type,
                                         !.x_axis = IF Truthy(ax.x) THEN ax.x ELSE Absent,
                                         !.y_axis = IF Truthy(ax.y) THEN ax.y ELSE Absent],
                        "Adding " \o chart_type \o " to dashboard")
        ELSE IF AnyIn(<<"remove", "delete", "drop">>, cl)
        THEN RuleIntent("remove_chart", NoParams, "Removing component from dashboard")
        ELSE IF IsSubstr("filter", cl) \/ IsSubstr("show only", cl) \/ IsSubstr("top", cl)
        THEN RuleIntent("filter_data", NoParams, "Applying filter to data")
        ELSE IF AnyIn(<<"change", "modify", "update", "switch">>, cl)
        THEN RuleIntent("modify_chart", NoParams, "Modifying chart as requested")
        ELSE IF IsSubstr("rename", cl)
        THEN RuleIntent("rename_component", NoParams, "Renaming component")
        ELSE RuleIntent("unknown", NoParams,
                        "I didn't understand that command. Please try rephrasing or be more specific.")

(***************************************************************************)
(* ActionGenerator: the shapes of its inputs and results                   *)
(***************************************************************************)
\* a Component of a Dashboard
NoComponent ==
    [id |-> Absent, type |-> Absent, title |-> Absent, x_axis |-> Null, y_axis |-> Null,
     aggregation |-> Absent, row |-> 0, col |-> 0, width |-> 0, height |-> 0]
\* the "updates" payload of update_component; config: the key "config" is present
NoUpdates ==
    [type |-> Absent, title |-> Absent, config |-> FALSE, x_axis |-> Absent, y_axis |-> Absent,
     value |-> Absent]
\* the "filter" payload of apply_filter
NoFilter ==
    [column |-> Absent, operator |-> Absent, value |-> Absent, limit |-> Absent,
     sort_by |-> Absent, order |-> Absent]
\* the deterministic analysis result of the Analytical Answer Engine
\* kind: the one result key set by the question's keyword family ("none": no key set);
\* top_items: <<label, sum>> pairs in order; value / count: an aggregate is value / count
NoAnalysis ==
    [kind |-> Absent, top_items |-> <<>>, metric |-> Absent, category |-> Absent,
     column |-> Absent, value |-> 0, count |-> 0]
\* an Action (a Python dict): a missing key holds Absent / the empty default.
\* raised = TRUE: no Action was returned, an exception left generate_action.
NoAction ==
    [raised |-> FALSE, success |-> Absent, action |-> Absent, error |-> Absent,
     explanation |-> Absent, component |-> <<>>, components |-> <<>>,
     component_id |-> Absent, updates |-> NoUpdates, filter |-> NoFilter,
     transformation |-> AbsentParams, question |-> Absent, chart_id |-> Absent,
     analysis |-> NoAnalysis,
     llm_calls |-> 0]   \* not a key: the generate calls the handler made on the LLM Gateway
RaisedAction == [NoAction EXCEPT !.raised = TRUE]
Failure(error, explanation) ==
    [NoAction EXCEPT !.success = "False", !.error = error, !.explanation = explanation]
Success(kind, explanation) ==
    [NoAction EXCEPT !.success = "True", !.action = kind, !.explanation = explanation]

\* dict.get(key, default) on a value read from a mapping of fixed shape
Get(v, default) == IF v = Absent THEN default ELSE v
\* dict.get(key): None when the key is missing
GetN(v) == Get(v, Null)
\* Python truthiness of a value read with .get: numbers and lists here are non-zero / non-empty
Falsy(v) == ~Truthy(v)
\* parameters.get(...) raises AttributeError unless parameters is a mapping
IsDict(p) == p.kind = "dict"
\* "key" in parameters raises TypeError on None and on a number; on a string or a
\* list it is a containment test, false for the strings and lists drawn here
InRaises(p) == p.kind \in {Null, NumV}

\* uuid.uuid4(): the k-th identifier drawn in this call
uuid4(seed, k) == "uuid-" \o ToString(seed) \o "-" \o ToString(k)
IntV(n) == "<int:" \o ToString(n) \o ">"

(***************************************************************************)
(* ActionGenerator._categorize_columns                                     *)
(***************************************************************************)
_categorize_columns(cat) ==
    [numeric |-> NamesOfType(cat, {"numeric"}), string |-> NamesOfType(cat, {"string"}),
     date |-> NamesOfType(cat, {"date"}), boolean |-> NamesOfType(cat, {"boolean"})]

(***************************************************************************)
(* ActionGenerator._generate_add_chart                                     *)
(***************************************************************************)
\* "Intelligent defaults if not specified"
AddChartAxes(parameters, column_info) ==
    [x |-> IF Falsy(GetN(parameters.x_axis)) /\ column_info.string # <<>>
           THEN column_info.string[1] ELSE GetN(parameters.x_axis),
     y |-> IF Falsy(GetN(parameters.y_axis)) /\ column_info.numeric # <<>>
           THEN column_info.numeric[1] ELSE GetN(parameters.y_axis)]

\* "Validate we have required columns": [fail, error, explanation, x, y]
AddChartValidate(chart_type, ax, column_info) ==
    IF chart_type \in {"bar_chart", "line_chart"} /\ (Falsy(ax.x) \/ Falsy(ax.y))
    THEN [fail |-> TRUE, error |-> "Need both X-axis (categorical) and Y-axis (numeric) columns",
          explanation |-> "Cannot create chart: missing required columns", x |-> ax.x, y |-> ax.y]
    ELSE IF chart_type = "pie_chart" /\ (Falsy(ax.x) \/ Falsy(ax.y))
    THEN IF column_info.string # <<>> /\ column_info.numeric # <<>>
         THEN [fail |-> FALSE, error |-> "", explanation |-> "",
               x |-> column_info.string[1], y |-> column_info.numeric[1]]
         ELSE [fail |-> TRUE, error |-> "Pie chart requires categorical and numeric columns",
               explanation |-> "Cannot create pie chart: insufficient columns", x |-> ax.x, y |-> ax.y]
    ELSE [fail |-> FALSE, error |-> "", explanation |-> "", x |-> ax.x, y |-> ax.y]

\* "Generate title": [raised, title]; str.replace on a value that is not a string raises
AddChartTitle(parameters, chart_type, x, y) ==
    IF Truthy(GetN(parameters.title)) THEN [raised |-> FALSE, title |-> parameters.title]
    ELSE IF Truthy(x) /\ Truthy(y)
         THEN IF IsStr(x) /\ IsStr(y)
              THEN [raised |-> FALSE, title |-> Pretty(y) \o " by " \o Pretty(x)]
              ELSE [raised |-> TRUE, title |-> Absent]
    ELSE IF IsStr(chart_type)
         THEN [raised |-> FALSE, title |-> "New " \o Pretty(chart_type)]
         ELSE [raised |-> TRUE, title |-> Absent]

_generate_add_chart(dash, parameters, column_info, it, seed) ==
    IF ~IsDict(parameters) THEN RaisedAction
    ELSE LET chart_type == Get(parameters.chart_type, "bar_chart")
             v == AddChartValidate(chart_type, AddChartAxes(parameters, column_info), column_info)
             t == AddChartTitle(parameters, chart_type, v.x, v.y)
             new_component ==
                 [NoComponent EXCEPT !.id = uuid4(seed, 1), !.type = chart_type, !.title = t.title,
                                     !.x_axis = v.x, !.y_axis = v.y,
                                     !.aggregation = Get(parameters.aggregation, "sum"),
                                     !.row = Len(dash.components), !.col = 0,
                                     !.width = 2, !.height = 2]
         IN  IF v.fail THEN Failure(v.error, v.explanation)
             ELSE IF t.raised THEN RaisedAction
             ELSE [Success("add_component",
                           Get(it.explanation, "Added " \o chart_type \o " to dashboard"))
                   EXCEPT !.component = <<new_component>>]

(***************************************************************************)
(* ActionGenerator._generate_modify_chart                                  *)
(***************************************************************************)
RECURSIVE ComponentsOfType(_, _)
\* [c for c in components if c.get("type") in types]
ComponentsOfType(comps, types) ==
    IF comps = <<>> THEN <<>>
    ELSE (IF Head(comps).type \in types THEN <<Head(comps)>> ELSE <<>>)
         \o ComponentsOfType(Tail(comps), types)

\* "Find target component": Null when there is no component to modify
ModifyTarget(dash, it) ==
    LET chart_components == ComponentsOfType(dash.components, {"bar_chart", "line_chart", "pie_chart"})
    IN  IF Truthy(GetN(it.target_component)) THEN it.target_component
        ELSE IF chart_components # <<>> THEN chart_components[1].id
        ELSE IF dash.components # <<>> THEN dash.components[1].id
        ELSE Null

\* "key" in parameters, where the test does not raise
Has(parameters, v) == IsDict(parameters) /\ v # Absent

\* "Build updates"
ModifyUpdates(parameters) ==
    LET new_type == IF Truthy(GetN(parameters.chart_type)) THEN parameters.chart_type
                    ELSE GetN(parameters.type)
        typed == (Has(parameters, parameters.chart_type) \/ Has(parameters, parameters.type))
                 /\ new_type \in {"bar_chart", "line_chart", "pie_chart", "scatter_chart"}
        axes == Has(parameters, parameters.x_axis) \/ Has(parameters, parameters.y_axis)
    IN  [NoUpdates EXCEPT
            !.type = IF typed THEN new_type ELSE Absent,
            !.title = IF Has(parameters, parameters.title) THEN parameters.title ELSE Absent,
            !.config = axes,
            !.x_axis = IF Has(parameters, parameters.x_axis) THEN parameters.x_axis ELSE Absent,
            !.y_axis = IF Has(parameters, parameters.y_axis) THEN parameters.y_axis ELSE Absent]

_generate_modify_chart(dash, parameters, it) ==
    IF ModifyTarget(dash, it) = Null
    THEN Failure("No component to modify", "No components found in dashboard")
    ELSE IF InRaises(parameters) THEN RaisedAction
    ELSE IF ModifyUpdates(parameters) = NoUpdates
    THEN Failure("No valid updates specified", "Please specify what to modify (type, title, axes, etc.)")
    ELSE [Success("update_component", Get(it.explanation, "Modified chart"))
          EXCEPT !.component_id = ModifyTarget(dash, it), !.updates = ModifyUpdates(parameters)]

(***************************************************************************)
(* ActionGenerator._generate_remove_chart                                  *)
(***************************************************************************)
\* the target, taking the first component where the code takes the last
RemoveTarget_first(dash, it) ==
    IF Truthy(GetN(it.target_component)) THEN it.target_component
    ELSE IF dash.components # <<>> THEN dash.components[1].id
    ELSE Null
\* the target: Null when there is no component to remove
RemoveTarget(dash, it) ==
    IF Truthy(GetN(it.target_component)) THEN it.target_component
    ELSE IF dash.components # <<>> THEN dash.components[Len(dash.components)].id
    ELSE Null

_generate_remove_chart(dash, parameters, it) ==
    IF RemoveTarget(dash, it) = Null
    THEN Failure("No component to remove", "No components found in dashboard")
    ELSE [Success("remove_component", Get(it.explanation, "Removed component"))
          EXCEPT !.component_id = RemoveTarget(dash, it)]

(***************************************************************************)
(* ActionGenerator._generate_filter, _generate_transform                   *)
(***************************************************************************)
RECURSIVE DigitsEnd(_, _)
DigitsEnd(s, i) == IF i <= Len(s) /\ IsDigit(CharAt(s, i)) THEN DigitsEnd(s, i + 1) ELSE i - 1
RECURSIVE ParseInt(_, _)
\* int(digits), acc the value of the digits read so far
ParseInt(digits, acc) ==
    IF digits = "" THEN acc
    ELSE ParseInt(SubSeq(digits, 2, Len(digits)),
                  10 * acc + (CHOOSE d \in 0..9 : CharAt(Digits, d + 1) = CharAt(digits, 1)))
RECURSIVE TopSearch(_, _)
\* re.search(r'top\s+(\d+)', s): int(group(1)) of the leftmost match, -1 if none
TopSearch(s, i) ==
    IF i + 2 > Len(s) THEN -1
    ELSE LET e1 == SpaceEnd(s, i + 3)
             e2 == DigitsEnd(s, e1 + 1)
         IN  IF SubSeq(s, i, i + 2) = "top" /\ e1 >= i + 3 /\ e2 > e1
             THEN ParseInt(SubSeq(s, e1 + 1, e2), 0)
             ELSE TopSearch(s, i + 1)

_generate_filter(dash, parameters, column_info, it) ==
    IF ~IsDict(parameters) \/ ~IsStr(Get(it.explanation, "")) THEN RaisedAction
    ELSE LET top == TopSearch(Lower(Get(it.explanation, "")), 1)
         IN  [Success("apply_filter", Get(it.explanation, "Applied filter to data"))
              EXCEPT !.filter =
                  [column |-> GetN(parameters.column), operator |-> Get(parameters.operator, "eq"),
                   value |-> GetN(parameters.value),
                   limit |-> IF top >= 0 THEN IntV(top) ELSE GetN(parameters.limit),
                   sort_by |-> GetN(parameters.sort_by), order |-> Get(parameters.order, "desc")]]

_generate_transform(dash, parameters, column_info, it) ==
    [Success("apply_transformation", Get(it.explanation, "Applied transformation to data"))
     EXCEPT !.transformation = parameters]

(***************************************************************************)
(* ActionGenerator._generate_update_kpi, _generate_rename_component        *)
(***************************************************************************)
KpiTarget(dash, it) ==
    IF Truthy(GetN(it.target_component)) THEN it.target_component
    ELSE IF ComponentsOfType(dash.components, {"kpi"}) # <<>>
         THEN ComponentsOfType(dash.components, {"kpi"})[1].id
    ELSE Null

_generate_update_kpi(dash, parameters, it) ==
    IF KpiTarget(dash, it) = Null
    THEN Failure("No KPI component found", "No KPI cards in dashboard to update")
    ELSE IF InRaises(parameters) THEN RaisedAction
    ELSE [Success("update_component", Get(it.explanation, "Updated KPI"))
          EXCEPT !.component_id = KpiTarget(dash, it),
                 !.updates = [NoUpdates EXCEPT
                     !.config = Has(parameters, parameters.value),
                     !.value = IF Has(parameters, parameters.value) THEN parameters.value ELSE Absent,
                     !.title = IF Has(parameters, parameters.title) THEN parameters.title ELSE Absent]]

RenameTarget(dash, it) ==
    IF Truthy(GetN(it.target_component)) THEN it.target_component
    ELSE IF dash.components # <<>> THEN dash.components[1].id
    ELSE Null

_generate_rename_component(dash, parameters, it) ==
    IF ~IsDict(parameters) THEN RaisedAction
    ELSE LET new_title == IF Truthy(GetN(parameters.title)) THEN parameters.title
                          ELSE GetN(parameters.new_title)
         IN  IF Falsy(new_title)
             THEN Failure("No new title specified", "Please specify the new title for the component")
             ELSE IF RenameTarget(dash, it) = Null
             THEN Failure("No component to rename", "No components found in dashboard")
             ELSE [Success("update_component",
                           Get(it.explanation, "Renamed component to '" \o new_title \o "'"))
                   EXCEPT !.component_id = RenameTarget(dash, it),
                          !.updates = [NoUpdates EXCEPT !.title = new_title]]

(***************************************************************************)
(* ActionGenerator._generate_full_dashboard                                *)
(***************************************************************************)
\* type_map.get(chart_type, "bar_chart")
BackendType(chart_type) ==
    IF chart_type \in {"bar_chart", "line_chart", "pie_chart", "kpi", "table"} THEN chart_type
    ELSE "bar_chart"

\* the axes of one widget spec after "Validate columns"
WidgetAxes(w, column_info) ==
    LET chart_type == Get(w.chart_type, "bar_chart")
        x0 == GetN(w.x_axis)
        y0 == GetN(w.y_axis)
        barline == chart_type \in {"bar_chart", "line_chart"} /\ (Falsy(x0) \/ Falsy(y0))
        x1 == IF barline /\ Falsy(x0) /\ column_info.string # <<>> THEN column_info.string[1] ELSE x0
        y1 == IF barline /\ Falsy(y0) /\ column_info.numeric # <<>> THEN column_info.numeric[1] ELSE y0
        y2 == IF chart_type = "kpi" /\ Falsy(y1) /\ column_info.numeric # <<>>
              THEN column_info.numeric[1] ELSE y1
    IN  [x |-> x1, y |-> y2]

\* "Generate title if not provided": [raised, title]
WidgetTitle(w, chart_type, x, y) ==
    IF Truthy(Get(w.title, "")) THEN [raised |-> FALSE, title |-> w.title]
    ELSE IF Truthy(x) /\ Truthy(y)
         THEN IF IsStr(x) /\ IsStr(y)
              THEN [raised |-> FALSE, title |-> Pretty(y) \o " by " \o Pretty(x)]
              ELSE [raised |-> TRUE, title |-> Absent]
    ELSE IF Truthy(y)
         THEN IF IsStr(y) THEN [raised |-> FALSE, title |-> "Total " \o Pretty(y)]
              ELSE [raised |-> TRUE, title |-> Absent]
    ELSE IF IsStr(chart_type) THEN [raised |-> FALSE, title |-> Pretty(chart_type)]
    ELSE [raised |-> TRUE, title |-> Absent]

\* the body of the loop over widgets_spec for the widget at index i (from 0):
\* [raised, component]
WidgetComponent(w, i, row, column_info, seed) ==
    IF w.kind # "dict" THEN [raised |-> TRUE, component |-> NoComponent]
    ELSE LET chart_type == Get(w.chart_type, "bar_chart")
             ax == WidgetAxes(w, column_info)
             t == WidgetTitle(w, chart_type, ax.x, ax.y)
         IN  IF chart_type = ListV \/ t.raised THEN [raised |-> TRUE, component |-> NoComponent]
             ELSE [raised |-> FALSE,
                   component |->
                     [NoComponent EXCEPT !.id = uuid4(seed, i + 1), !.type = BackendType(chart_type),
                                         !.title = t.title, !.x_axis = ax.x, !.y_axis = ax.y,
                                         !.aggregation = "sum",
                                         !.row = row + (i \div 3), !.col = (i % 3) * 4,
                                         !.width = 4,
                                         !.height = IF chart_type # "kpi" THEN 2 ELSE 1]]

RECURSIVE WidgetComponents(_, _, _, _, _)
\* the loop over widgets_spec[i..]: [raised, components]
WidgetComponents(items, i, row, column_info, seed) ==
    IF i >= Len(items) THEN [raised |-> FALSE, components |-> <<>>]
    ELSE LET one == WidgetComponent(items[i + 1], i, row, column_info, seed)
             rest == WidgetComponents(items, i + 1, row, column_info, seed)
         IN  IF one.raised \/ rest.raised THEN [raised |-> TRUE, components |-> <<>>]
             ELSE [raised |-> FALSE, components |-> <<one.component>> \o rest.components]

\* Place with the fresh identifier repeated in the component's title
Place_identifier_in_title(st, type, title, x, y, width, height, seed) ==
    [st EXCEPT !.components =
        Append(@, [NoComponent EXCEPT !.id = uuid4(seed, Len(st.components) + 1), !.type = type,
                                      !.title = title \o " " \o uuid4(seed, Len(st.components) + 1),
                                      !.x_axis = x, !.y_axis = y,
                                      !.aggregation = "sum", !.row = st.row, !.col = st.col,
                                      !.width = width, !.height = height])]

\* the cursor of the "intelligent" layout: [row, col, components]
Place(st, type, title, x, y, width, height, seed) ==
    [st EXCEPT !.components =
        Append(@, [NoComponent EXCEPT !.id = uuid4(seed, Len(st.components) + 1), !.type = type,
                                      !.title = title, !.x_axis = x, !.y_axis = y,
                                      !.aggregation = "sum", !.row = st.row, !.col = st.col,
                                      !.width = width, !.height = height])]

RECURSIVE KpiCards(_, _, _)
\* "Generate KPIs": one card per column of numeric_cols (the first three numeric columns)
KpiCards(numeric_cols, st, seed) ==
    IF numeric_cols = <<>> THEN st
    ELSE LET placed == Place(st, "kpi", "Total " \o Pretty(Head(numeric_cols)), Null,
                             Head(numeric_cols), 4, 1, seed)
             moved == IF st.col + 4 >= 12 THEN [placed EXCEPT !.col = 0, !.row = st.row + 1]
                      ELSE [placed EXCEPT !.col = st.col + 4]
         IN  KpiCards(Tail(numeric_cols), moved, seed)

RECURSIVE BarCharts_no_wrap(_, _, _, _)
\* BarCharts that never starts a new row
BarCharts_no_wrap(string_cols, numeric0, st, seed) ==
    IF string_cols = <<>> THEN st
    ELSE LET placed == Place(st, "bar_chart",
                             Pretty(numeric0) \o " by " \o Pretty(Head(string_cols)),
                             Head(string_cols), numeric0, 6, 2, seed)
         IN  BarCharts_no_wrap(Tail(string_cols), numeric0, [placed EXCEPT !.col = st.col + 6], seed)

RECURSIVE BarCharts(_, _, _, _)
\* "Generate bar charts": one per column of string_cols (the first two string columns)
BarCharts(string_cols, numeric0, st, seed) ==
    IF string_cols = <<>> THEN st
    ELSE LET wrapped == IF st.col + 6 > 12 THEN [st EXCEPT !.col = 0, !.row = st.row + 2] ELSE st
             placed == Place(wrapped, "bar_chart",
                             Pretty(numeric0) \o " by " \o Pretty(Head(string_cols)),
                             Head(string_cols), numeric0, 6, 2, seed)
         IN  BarCharts(Tail(string_cols), numeric0, [placed EXCEPT !.col = wrapped.col + 6], seed)

\* "Generate line chart if date column exists"
LineChart(column_info, st, seed) ==
    IF column_info.date # <<>> /\ column_info.numeric # <<>>
    THEN LET wrapped == IF st.col + 6 > 12 THEN [st EXCEPT !.col = 0, !.row = st.row + 2] ELSE st
         IN  Place(wrapped, "line_chart", Pretty(column_info.numeric[1]) \o " Trend",
                   column_info.date[1], column_info.numeric[1], 6, 2, seed)
    ELSE st

\* seq[:n + 1]: a ranking that keeps one entry too many
FirstN_one_more(seq, n) == SubSeq(seq, 1, IF Len(seq) < n + 1 THEN Len(seq) ELSE n + 1)
FirstN(seq, n) == SubSeq(seq, 1, IF Len(seq) < n THEN Len(seq) ELSE n)

\* "Intelligent dashboard generation"
IntelligentDashboard(dash, column_info, seed) ==
    LET st0 == [row |-> Len(dash.components), col |-> 0, components |-> <<>>]
        st1 == KpiCards(FirstN(column_info.numeric, 3), st0, seed)
        st2 == IF column_info.string # <<>> /\ column_info.numeric # <<>>
               THEN BarCharts(FirstN(column_info.string, 2), column_info.numeric[1], st1, seed)
               ELSE st1
    IN  LineChart(column_info, st2, seed).components

\* "if widgets_spec:" - the truthiness of parameters.get("widgets", [])
WidgetsGiven(widgets) == widgets.kind \notin {Absent, Null} /\ ~(widgets.kind = "list" /\ widgets.items = <<>>)

_generate_full_dashboard(dash, parameters, column_info, it, cat, seed) ==
    IF ~IsDict(parameters) THEN RaisedAction
    ELSE LET given == WidgetsGiven(parameters.widgets)
             built == WidgetComponents(parameters.widgets.items, 0, Len(dash.components),
                                       column_info, seed)
             components == IF given THEN built.components
                           ELSE IntelligentDashboard(dash, column_info, seed)
         IN  IF given /\ (parameters.widgets.kind # "list" \/ built.raised) THEN RaisedAction
             ELSE [Success("add_multiple_components",
                           Get(it.explanation,
                               "Generated comprehensive dashboard with "
                                   \o ToString(Len(components)) \o " widgets"))
                   EXCEPT !.components = components]

(***************************************************************************)
(* ActionGenerator._generate_answer_question: the deterministic analysis   *)
(*                                                                         *)
(* A dataset row is a record of column values; the DataFrame's columns are *)
(* the fields of the rows.                                                 *)
(***************************************************************************)
DfColumns(data) == IF data = <<>> THEN {} ELSE DOMAIN data[1]

RECURSIVE FirstNamed(_, _)
\* the first column of cols whose lower-cased name is in the question, Null if none
FirstNamed(cols, ql) ==
    IF cols = <<>> THEN Null
    ELSE IF IsSubstr(Lower(Head(cols)), ql) THEN Head(cols)
    ELSE FirstNamed(Tail(cols), ql)
RECURSIVE FirstNamedIn(_, _, _)
\* the first column of cols named in the question and present in the rows, Null if none
FirstNamedIn(cols, ql, present) ==
    IF cols = <<>> THEN Null
    ELSE IF IsSubstr(Lower(Head(cols)), ql) /\ Head(cols) \in present THEN Head(cols)
    ELSE FirstNamedIn(Tail(cols), ql, present)
\* ... else the first column
NamedOrFirst(cols, ql) ==
    IF FirstNamed(cols, ql) # Null THEN FirstNamed(cols, ql)
    ELSE IF cols # <<>> THEN cols[1] ELSE Null

RECURSIVE SumWhere(_, _, _, _)
\* df[df[category] == key][metric].sum()
SumWhere(data, category, key, metric) ==
    IF data = <<>> THEN 0
    ELSE (IF Head(data)[category] = key THEN Head(data)[metric] ELSE 0)
         + SumWhere(Tail(data), category, key, metric)
RECURSIVE SumOf(_, _)
SumOf(data, metric) == IF data = <<>> THEN 0 ELSE Head(data)[metric] + SumOf(Tail(data), metric)

CharIndex(c) ==
    CHOOSE k \in 0..26 : IF IsLetter(c) THEN k > 0 /\ CharAt(LowerAlphabet, k) = LowerChar(c) ELSE k = 0
RECURSIVE StrLess(_, _)
\* a < b for strings of letters (the order groupby sorts its keys in)
StrLess(a, b) ==
    IF b = "" THEN FALSE
    ELSE IF a = "" THEN TRUE
    ELSE IF CharAt(a, 1) = CharAt(b, 1)
         THEN StrLess(SubSeq(a, 2, Len(a)), SubSeq(b, 2, Len(b)))
    ELSE CharIndex(CharAt(a, 1)) < CharIndex(CharAt(b, 1))

RECURSIVE Ranked(_, _, _, _)
\* groupby(category)[metric].sum().sort_values(ascending=False) over the keys left:
\* the largest sum first, equal sums in the order of the sorted keys
Ranked(keys, data, category, metric) ==
    IF keys = {} THEN <<>>
    ELSE LET best == CHOOSE k \in keys :
                        \A o \in keys \ {k} :
                            \/ SumWhere(data, category, k, metric) > SumWhere(data, category, o, metric)
                            \/ /\ SumWhere(data, category, k, metric) = SumWhere(data, category, o, metric)
                               /\ StrLess(k, o)
         IN  <<<<best, SumWhere(data, category, best, metric)>>>>
             \o Ranked(keys \ {best}, data, category, metric)

RECURSIVE Largest(_, _, _)
\* df.nlargest(n, metric): rows by value, the largest first, equal values in row order;
\* labelled by the row's index (from 0)
Largest(idx, data, metric) ==
    IF idx = {} THEN <<>>
    ELSE LET best == CHOOSE i \in idx :
                        \A o \in idx \ {i} :
                            \/ data[i][metric] > data[o][metric]
                            \/ data[i][metric] = data[o][metric] /\ i < o
         IN  <<<<ToString(best - 1), data[best][metric]>>>> \o Largest(idx \ {best}, data, metric)

\* [raised, result]: the "Handle different question types" chain
Analyse(ql, data, cat) ==
    LET numeric_cols == NamesOfType(cat, {"numeric"})
        string_cols == NamesOfType(cat, {"string"})
        cols == DfColumns(data)
        done(r) == [raised |-> FALSE, result |-> r]
        none == done([NoAnalysis EXCEPT !.kind = "none"])
        aggregate(kind, total) ==
            LET named == FirstNamedIn(numeric_cols, ql, cols)
                col == IF named # Null THEN named
                       ELSE IF numeric_cols # <<>> /\ numeric_cols[1] \in cols THEN numeric_cols[1]
                       ELSE Null
            IN  IF col = Null THEN none
                ELSE done([NoAnalysis EXCEPT !.kind = kind, !.column = col,
                                             !.value = SumOf(data, col),
                                             !.count = IF total THEN 1 ELSE Len(data)])
    IN  IF IsSubstr("top", ql) \/ IsSubstr("highest", ql) \/ IsSubstr("best", ql)
        THEN LET n == IF TopSearch(ql, 1) >= 0 THEN TopSearch(ql, 1) ELSE 5
                 metric_col == NamedOrFirst(numeric_cols, ql)
                 category_col == NamedOrFirst(string_cols, ql)
             IN  IF Truthy(metric_col) /\ Truthy(category_col) /\ metric_col \in cols /\ category_col \in cols
                 THEN done([NoAnalysis EXCEPT
                        !.kind = "top_items",
                        !.top_items = FirstN(Ranked({data[i][category_col] : i \in DOMAIN data},
                                                    data, category_col, metric_col), n),
                        !.metric = metric_col, !.category = category_col])
                 ELSE IF Truthy(metric_col) /\ metric_col \in cols
                 THEN done([NoAnalysis EXCEPT
                        !.kind = "top_items",
                        !.top_items = FirstN(Largest(DOMAIN data, data, metric_col), n),
                        !.metric = metric_col])
                 ELSE none
        ELSE IF IsSubstr("average", ql) \/ IsSubstr("mean", ql) \/ IsSubstr("avg", ql)
        THEN aggregate("average", FALSE)
        ELSE IF IsSubstr("total", ql) \/ IsSubstr("sum", ql)
        THEN aggregate("total", TRUE)
        ELSE IF IsSubstr("count", ql) \/ IsSubstr("how many", ql) \/ IsSubstr("number of", ql)
        THEN done([NoAnalysis EXCEPT !.kind = "count", !.value = Len(data), !.count = 1])
        ELSE IF IsSubstr("minimum", ql) \/ IsSubstr("min", ql) \/ IsSubstr("lowest", ql)
        THEN IF FirstNamedIn(numeric_cols, ql, cols) # Null
             THEN done([NoAnalysis EXCEPT !.kind = "minimum", !.column = FirstNamedIn(numeric_cols, ql, cols)])
             ELSE none
        ELSE IF IsSubstr("maximum", ql) \/ IsSubstr("max", ql)
        THEN IF FirstNamedIn(numeric_cols, ql, cols) # Null
             THEN done([NoAnalysis EXCEPT !.kind = "maximum", !.column = FirstNamedIn(numeric_cols, ql, cols)])
             ELSE none
        \* df[numeric_cols].describe() raises KeyError when a numeric column is not in the rows
        ELSE IF numeric_cols = <<>> THEN none
        ELSE IF \A i \in DOMAIN numeric_cols : numeric_cols[i] \in cols
             THEN done([NoAnalysis EXCEPT !.kind = "statistics"])
        ELSE [raised |-> TRUE, result |-> NoAnalysis]

(***************************************************************************)
(* ActionGenerator._generate_answer_question, _generate_explain_chart      *)
(***************************************************************************)
Pad(n, width) == IF width = 3 /\ n < 10 THEN "00" \o ToString(n)
                 ELSE IF (width = 3 /\ n < 100) \/ (width = 2 /\ n < 10) THEN "0" \o ToString(n)
                 ELSE ToString(n)
RECURSIVE Commas(_)
\* f"{n:,}" for n >= 0
Commas(n) == IF n < 1000 THEN ToString(n) ELSE Commas(n \div 1000) \o "," \o Pad(n % 1000, 3)
\* f"{num / den:,.2f}" for num >= 0, den > 0
Fmt2(num, den) ==
    LET cents == (200 * num + den) \div (2 * den)
    IN  Commas(cents \div 100) \o "." \o Pad(cents % 100, 2)

RECURSIVE ItemLines(_)
ItemLines(items) ==
    IF items = <<>> THEN ""
    ELSE "- " \o Head(items)[1] \o ": " \o Fmt2(Head(items)[2], 1) \o "\n" \o ItemLines(Tail(items))

\* "Fallback: create answer from analysis results"
FallbackAnswer(r) ==
    "Based on the data analysis:\n\n" \o
    (IF r.kind = "top_items"
     THEN "Top items by " \o Get(r.metric, "value") \o ":\n" \o ItemLines(FirstN(r.top_items, 10))
     ELSE IF r.kind = "average" THEN "Average " \o r.column \o ": " \o Fmt2(r.value, r.count) \o "\n"
     ELSE IF r.kind = "total" THEN "Total " \o r.column \o ": " \o Fmt2(r.value, 1) \o "\n"
     ELSE IF r.kind = "count" THEN "Total records: " \o Commas(r.value) \o "\n"
     \* json.dumps(analysis_results), abbreviated to the keys it holds
     ELSE "{" \o (IF r.kind = "none" THEN "" ELSE "\"" \o r.kind \o "\": {...}, ")
              \o "\"dataset_info\": {...}}")

\* str(e) of the ValueError GeminiClient() raises without an API key
ApiKeyError ==
    "GEMINI_API_KEY not found in environment variables. Get one at https://makersuite.google.com/app/apikey"
\* type(v).__name__ of a value that is not a string
TypeName(v) == IF v = Null THEN "NoneType" ELSE IF v = NumV THEN "int" ELSE "list"

\* a text the narrative provider returns when its generate call succeeds (e.reply)
Narrative == "Here is what the data shows."

_generate_answer_question(dash, parameters, it, cat, e) ==
    IF ~IsDict(parameters) THEN RaisedAction
    ELSE LET question == IF Truthy(Get(parameters.question, "")) THEN parameters.question
                         ELSE Get(it.explanation, "")
             analysed == Analyse(Lower(question), dash.dataset, cat)
             error(msg) ==
                 Failure(msg, "I encountered an error analyzing the data: " \o msg
                              \o ". Please try rephrasing your question or check that your data is properly loaded.")
         IN  IF dash.dataset = <<>>
             THEN Failure("No data available",
                          "I need data to answer your question. Please ensure your dataset is loaded.")
             ELSE IF e.init = "raise"
             THEN Failure("Gemini not available",
                          "Gemini is required for Q&A but is not available: " \o ApiKeyError
                              \o ". Please configure Gemini API key.")
             ELSE IF ~IsStr(question)
             THEN error("'" \o TypeName(question) \o "' object has no attribute 'lower'")
             \* the KeyError's text names the missing columns; it is abbreviated here
             ELSE IF analysed.raised THEN error("columns not in index")
             ELSE [Success("answer_question",
                           IF e.gen = "ok" THEN e.reply ELSE FallbackAnswer(analysed.result))
                   EXCEPT !.question = question, !.analysis = analysed.result, !.llm_calls = 1]

_generate_explain_chart(dash, parameters, it, cat, e) ==
    IF ~IsDict(parameters) THEN RaisedAction
    ELSE [Success("explain_chart",
                  IF e.init = "ok" /\ e.gen = "ok" THEN e.reply
                  ELSE Get(it.explanation,
                           "Chart analysis: This chart displays the selected metrics. Review the data to identify trends and patterns for informed decision-making."))
          EXCEPT !.chart_id = IF Truthy(GetN(parameters.chart_id)) THEN parameters.chart_id
                              ELSE GetN(it.target_component),
                 !.llm_calls = IF e.init = "ok" THEN 1 ELSE 0]

(***************************************************************************)
(* ActionGenerator.generate_action                                         *)
(***************************************************************************)
question_indicators ==
    <<"what", "which", "how many", "how much", "what's", "what are", "show me the", "tell me">>

\* the "Fallback" that turns an unknown intent that looks like a question into answer_question
LooksLikeQuestion(it) ==
    LET user_command_lower == IF it.user_command # Absent THEN Lower(it.user_command) ELSE ""
    IN  \E i \in DOMAIN question_indicators :
            \/ IsSubstr(question_indicators[i], Lower(Get(it.explanation, "")))
            \/ IsSubstr(question_indicators[i], user_command_lower)
Rescued(it) ==
    [it EXCEPT !.action_type = "answer_question",
               !.parameters = [NoParams EXCEPT !.question =
                    IF Truthy(Get(it.explanation, "")) THEN it.explanation
                    ELSE IF it.user_command # Absent THEN Lower(it.user_command) ELSE ""]]

suggestions ==
    <<"Try: 'Create a bar chart showing [metric] by [category]'", "Try: 'Show me [metric]'",
      "Try: 'Display total [metric]'", "Try: 'Add a line chart for [metric] over time'",
      "Try: 'Show KPIs for [metric]'", "Try: 'What are the top 5 [items] by [metric]?'",
      "Try: 'What's the average [metric]?'", "Try: 'Which [category] has the highest [metric]?'">>
RECURSIVE Bullets(_)
Bullets(lines) == IF lines = <<>> THEN <<>> ELSE <<"- " \o Head(lines)>> \o Bullets(Tail(lines))

\* the dispatch on action_type, after the rescue rule
Dispatch(action_type, parameters, it, dash, cat, e) ==
    LET column_info == _categorize_columns(cat)
    IN  CASE action_type = "generate_dashboard" ->
                _generate_full_dashboard(dash, parameters, column_info, it, cat, e.seed)
          [] action_type = "add_chart" -> _generate_add_chart(dash, parameters, column_info, it, e.seed)
          [] action_type = "explain_chart" -> _generate_explain_chart(dash, parameters, it, cat, e)
          [] action_type = "answer_question" -> _generate_answer_question(dash, parameters, it, cat, e)
          [] action_type = "modify_chart" -> _generate_modify_chart(dash, parameters, it)
          [] action_type = "remove_chart" -> _generate_remove_chart(dash, parameters, it)
          [] action_type = "filter_data" -> _generate_filter(dash, parameters, column_info, it)
          [] action_type = "transform_data" -> _generate_transform(dash, parameters, column_info, it)
          [] action_type = "update_kpi" -> _generate_update_kpi(dash, parameters, it)
          [] action_type = "rename_component" -> _generate_rename_component(dash, parameters, it)
          [] action_type = "unknown" ->
                Failure("Unknown action type",
                        Get(it.explanation, "I didn't understand that command.")
                            \o "\n\nAvailable commands:\n" \o Join(Bullets(suggestions), "\n"))
          [] OTHER ->
                Failure("Unknown action type: " \o action_type,
                        Get(it.explanation,
                            "Unknown action. Try commands like 'Create a bar chart' or 'Show me revenue'."))

generate_action(it, dash, cat, e) ==
    LET action_type == GetN(it.action_type)
        parameters == IF it.parameters.kind = Absent THEN NoParams ELSE it.parameters
    IN  IF action_type = "unknown" /\ ~IsStr(Get(it.explanation, "")) THEN RaisedAction
        ELSE IF action_type = "unknown" /\ LooksLikeQuestion(it)
        THEN Dispatch("answer_question", Rescued(it).parameters, it, dash, cat, e)
        ELSE Dispatch(action_type, parameters, it, dash, cat, e)

(***************************************************************************)
(* IntentParser.parse_intent                                               *)
(***************************************************************************)
\* the outcome of self.llm.generate: it raised, or it returned the text
LLMRaises == [raised |-> TRUE, text |-> <<>>]
LLMReturns(t) == [raised |-> FALSE, text |-> t]

\* parse_intent without its except branch: a failed generate call is not noticed
parse_intent_without_fallback(cmd, dash, cat, l) ==
    [_validate_action(_extract_json_strict(l.text)) EXCEPT !.user_command = cmd]

parse_intent(cmd, dash, cat, l) ==
    IF l.raised THEN _rule_based_parse(cmd, dash, cat)
    ELSE [_validate_action(_extract_json_strict(l.text)) EXCEPT !.user_command = cmd]
\* the stages parse_intent runs after the generate call
StagesRun(l) == IF l.raised THEN {"generate", "rules"} ELSE {"generate", "extract", "validate"}

(***************************************************************************)
(* DashboardAgent                                                          *)
(***************************************************************************)
AnswerLimit == 500
ExplainLimit == 100
\* dashboard_state after the "Add dataset data to dashboard state" step
WithDataset(dash, it, data) ==
    IF data # <<>> /\ GetN(it.action_type) \in {"explain_chart", "answer_question"}
    THEN [dash EXCEPT !.dataset =
             FirstN(data, IF it.action_type = "answer_question" THEN AnswerLimit ELSE ExplainLimit)]
    ELSE dash

MaxHistory == 1
\* grid: dashboard["layout"]["grid"], the positions the stored dashboard lists
EmptyDashboard == [components |-> <<>>, dataset |-> <<>>, grid |-> <<>>]
ProviderUp == [init |-> "ok", gen |-> "ok", seed |-> 1, reply |-> Narrative]

\* no IntentParser is under construction
NoParser ==
    [pc |-> "none", llm_provider |-> "gemini", GEMINI_AVAILABLE |-> TRUE, api_key |-> TRUE,
     HF_AVAILABLE |-> TRUE, TRANSFORMERS_AVAILABLE |-> TRUE, model_loads |-> TRUE,
     llm |-> Null, pipeline |-> FALSE, raised |-> FALSE]

\* the later specifications' variables at rest
Quiet ==
    /\ second = NoAction
    /\ evaluator = [current_task_id |-> Null, start_time |-> 0, evaluation_history |-> <<>>]
    /\ req = <<>>
    /\ running = 0
    /\ clock = 1
    /\ parser = NoParser

\* the state no operation has touched
Untouched ==
    /\ text = <<>>
    /\ llm = LLMReturns(<<>>)
    /\ command = ""
    /\ catalog = <<>>
    /\ dashboard = EmptyDashboard
    /\ rows = <<>>
    /\ env = ProviderUp
    /\ intent = NoIntent
    /\ action = NoAction
    /\ ran = {}
    /\ history = <<>>
    /\ Quiet

\* process_command keeping only the newest entry in the log
process_command_overwriting_log(cmd, dash, cat, data, l, e, cap) ==
    \E parsed \in {parse_intent(cmd, dash, cat, l)} :
    \E state \in {WithDataset(dash, parsed, data)} :
    \E result \in {generate_action(parsed, state, cat, e)} :
        /\ pc = "agent"
        /\ Len(history) < cap
        /\ command' = cmd
        /\ catalog' = cat
        /\ rows' = data
        /\ llm' = l
        /\ env' = e
        /\ ran' = StagesRun(l)
        /\ intent' = parsed
        /\ dashboard' = state
        /\ action' = result
        /\ history' = IF result.raised THEN history
                      ELSE <<[user_command |-> cmd, intent |-> parsed, action |-> result]>>
        /\ UNCHANGED <<pc, text, aux>>

\* DashboardAgent.process_command(user_command, dashboard_state, available_columns, dataset_data)
\* with the outcomes l of the intent LLM and e of the narrative provider; requests are
\* explored while the log holds fewer than cap entries
process_command(cmd, dash, cat, data, l, e, cap) ==
    \E parsed \in {parse_intent(cmd, dash, cat, l)} :
    \E state \in {WithDataset(dash, parsed, data)} :
    \E result \in {generate_action(parsed, state, cat, e)} :
        /\ pc = "agent"
        /\ Len(history) < cap
        /\ command' = cmd
        /\ catalog' = cat
        /\ rows' = data
        /\ llm' = l
        /\ env' = e
        /\ ran' = StagesRun(l)
        /\ intent' = parsed
        /\ dashboard' = state
        /\ action' = result
        /\ history' = IF result.raised THEN history
                      ELSE Append(history, [user_command |-> cmd, intent |-> parsed, action |-> result])
        /\ UNCHANGED <<pc, text, aux>>

clear_history ==
    /\ pc = "agent"
    /\ history' = <<>>
    /\ UNCHANGED <<pc, text, llm, command, catalog, dashboard, rows, env, intent, action, ran, aux>>

(***************************************************************************)
(* The inputs the operations are exercised on                              *)
(***************************************************************************)
Seqs(S, n) == UNION {[1..k -> S] : k \in 0..n}
Column(name, type) == [name |-> name, type |-> type]
CatalogBoth == <<Column("region", "string"), Column("revenue", "numeric")>>
CatalogDated ==
    <<Column("unit_cost", "numeric"), Column("order_date", "date"), Column("product", "string"),
      Column("sales", "numeric")>>
CatalogNumeric == <<Column("revenue", "numeric"), Column("in_stock", "boolean")>>
CatalogString == <<Column("region", "string")>>
Catalogs == {<<>>, CatalogBoth, CatalogDated, CatalogNumeric, CatalogString}

Chart1 == [NoComponent EXCEPT !.id = "c1", !.type = "bar_chart", !.title = "Revenue by Region",
                              !.x_axis = "region", !.y_axis = "revenue", !.aggregation = "sum",
                              !.width = 2, !.height = 2]
Kpi1 == [NoComponent EXCEPT !.id = "k1", !.type = "kpi", !.title = "Total Revenue",
                            !.y_axis = "revenue", !.aggregation = "sum", !.row = 1,
                            !.width = 4, !.height = 1]
Dashboards ==
    {EmptyDashboard, [EmptyDashboard EXCEPT !.components = <<Chart1>>],
     [EmptyDashboard EXCEPT !.components = <<Chart1, Kpi1>>]}

RowsSample ==
    <<[region |-> "east", revenue |-> 10], [region |-> "west", revenue |-> 25],
      [region |-> "east", revenue |-> 5]>>
Datasets == {<<>>, RowsSample}

\* the narrative provider: its client can be constructed or not, its generate call succeeds or not
Providers ==
    {[init |-> i, gen |-> g, seed |-> 1, reply |-> Narrative] : i \in {"ok", "raise"}, g \in {"ok", "raise"}}

Commands ==
    {"Bar chart revenue by region", "Show total revenue", "plot sales over time",
     "display unit cost by product", "make a pie", "add region by revenue",
     "Remove the last chart", "filter the top 5", "change it to a line chart",
     "rename it to Sales", "what is the total revenue", "hello"}

(***************************************************************************)
(* SpecExtract: _extract_json_strict on response texts                     *)
(***************************************************************************)
MaxExtra == 3
\* the texts of up to `extra` fragments, with the target object or nothing placed
\* anywhere among them
ResponseTexts(extra) ==
    UNION {{before \o middle \o after :
                before \in [1..p[1] -> Fragments], middle \in {<<>>, TargetText},
                after \in [1..p[2] -> Fragments]} :
           p \in {q \in (0..extra) \X (0..extra) : q[1] + q[2] <= extra}}

InitExtract ==
    /\ pc = "extract"
    /\ text \in ResponseTexts(MaxExtra)
    /\ llm = LLMReturns(<<>>) /\ command = "" /\ catalog = <<>> /\ dashboard = EmptyDashboard
    /\ rows = <<>> /\ env = ProviderUp /\ intent = NoIntent /\ action = NoAction
    /\ ran = {} /\ history = <<>> /\ Quiet
Extract ==
    /\ pc = "extract"
    /\ intent' = _extract_json_strict(text)
    /\ pc' = "extracted"
    /\ ran' = {"extract"}
    /\ UNCHANGED <<text, llm, command, catalog, dashboard, rows, env, action, history, aux>>
NextExtract == Extract
SpecExtract == InitExtract /\ [][NextExtract]_vars

(***************************************************************************)
(* SpecValidate: _validate_action on decoded mappings                      *)
(***************************************************************************)
\* any subset of the four keys, any value under each
DecodedMappings ==
    {[NoIntent EXCEPT !.action_type = a, !.target_component = t, !.parameters = q,
                      !.explanation = x] :
        a \in ValidActionSet \cup {Absent, Null, NumV, ListV, "dance", "ADD_CHART", ""},
        t \in {Absent, Null, "c1"},
        q \in {AbsentParams, NoParams, NotAMapping(Null), NotAMapping(ListV)},
        x \in {Absent, Null, NumV, "Adding a chart"}}

InitValidate ==
    /\ pc = "validate"
    /\ intent \in DecodedMappings
    /\ text = <<>> /\ llm = LLMReturns(<<>>) /\ command = "" /\ catalog = <<>>
    /\ dashboard = EmptyDashboard /\ rows = <<>> /\ env = ProviderUp /\ action = NoAction
    /\ ran = {} /\ history = <<>> /\ Quiet
Validate ==
    /\ pc = "validate"
    /\ intent' = _validate_action(intent)
    /\ pc' = "validated"
    /\ ran' = {"validate"}
    /\ UNCHANGED <<text, llm, command, catalog, dashboard, rows, env, action, history, aux>>
NextValidate == Validate
SpecValidate == InitValidate /\ [][NextValidate]_vars

(***************************************************************************)
(* SpecRules: _rule_based_parse on commands and catalogs                   *)
(***************************************************************************)
InitRules ==
    /\ pc = "rules"
    /\ command \in Commands
    /\ catalog \in Catalogs
    /\ dashboard \in Dashboards
    /\ text = <<>> /\ llm = LLMRaises /\ rows = <<>> /\ env = ProviderUp
    /\ intent = NoIntent /\ action = NoAction /\ ran = {} /\ history = <<>> /\ Quiet
Rules ==
    /\ pc = "rules"
    /\ intent' = _rule_based_parse(command, dashboard, catalog)
    /\ pc' = "ruled"
    /\ ran' = {"rules"}
    /\ UNCHANGED <<text, llm, command, catalog, dashboard, rows, env, action, history, aux>>
NextRules == Rules
SpecRules == InitRules /\ [][NextRules]_vars

(***************************************************************************)
(* SpecGen: generate_action on the Intents the Validator can output        *)
(***************************************************************************)
WidgetList(items) == [kind |-> "list", items |-> items]
\* parameters as the LLM may emit them
EmittedParameters ==
    {NoParams, NotAMapping(Null), NotAMapping(ListV),
     [NoParams EXCEPT !.chart_type = "pie_chart"],
     [NoParams EXCEPT !.chart_type = "line_chart", !.x_axis = "region", !.y_axis = "revenue",
                      !.title = "Revenue trend"],
     [NoParams EXCEPT !.x_axis = NumV, !.y_axis = "revenue", !.value = NumV],
     [NoParams EXCEPT !.type = "line_chart", !.new_title = "Sales", !.column = "region",
                      !.chart_id = "c1"],
     [NoParams EXCEPT !.question = "top 2 region by revenue"],
     [NoParams EXCEPT !.widgets = WidgetList(<<>>)],
     [NoParams EXCEPT !.widgets = WidgetList(<<[NoWidget EXCEPT !.chart_type = "bar_chart"]>>)],
     [NoParams EXCEPT !.widgets =
         WidgetList(<<[NoWidget EXCEPT !.chart_type = "kpi", !.y_axis = "revenue"],
                      [NoWidget EXCEPT !.chart_type = "pie", !.title = "Share"]>>)]}

\* what the Validator can output, with the command parse_intent then stores in it
ValidatedIntents ==
    {[_validate_action([NoIntent EXCEPT !.action_type = a, !.target_component = t,
                                         !.parameters = q, !.explanation = x])
      EXCEPT !.user_command = "How many regions are there"] :
        a \in ValidActionSet \cup {"dance"}, t \in {Null, "c1"}, q \in EmittedParameters,
        x \in {Null, "Show the top 5 regions", "Done"}}

GenDashboards ==
    {[d EXCEPT !.dataset = data] :
        d \in {EmptyDashboard, [EmptyDashboard EXCEPT !.components = <<Chart1>>],
               [EmptyDashboard EXCEPT !.components = <<Chart1, Kpi1>>]},
        data \in Datasets}

InitGen ==
    /\ pc = "generate"
    /\ intent \in ValidatedIntents
    /\ dashboard \in GenDashboards
    /\ catalog \in {<<>>, CatalogBoth, CatalogDated}
    /\ env \in Providers
    /\ text = <<>> /\ llm = LLMReturns(<<>>) /\ command = "" /\ rows = <<>>
    /\ action = NoAction /\ ran = {} /\ history = <<>> /\ Quiet
Generate ==
    /\ pc = "generate"
    /\ action' = generate_action(intent, dashboard, catalog, env)
    /\ pc' = "generated"
    /\ UNCHANGED <<text, llm, command, catalog, dashboard, rows, env, intent, ran, history, aux>>
NextGen == Generate
SpecGen == InitGen /\ [][NextGen]_vars

(***************************************************************************)
(* SpecTwice: generate_action called twice on one (Intent, Dashboard,      *)
(* Catalog)                                                                *)
(***************************************************************************)
\* the narrative provider at the second call: its availability and the text it
\* samples are not functions of (Intent, Dashboard, Catalog); uuid4 draws anew
SecondProviders ==
    {[init |-> i, gen |-> g, seed |-> 2, reply |-> r] :
        i \in {"ok", "raise"}, g \in {"ok", "raise"},
        r \in {Narrative, "The data shows a clear leader."}}
TwiceIntents ==
    {[v EXCEPT !.user_command = c] :
        v \in {w \in ValidatedIntents : w.target_component = Null},
        c \in {"How many regions are there", "hello"}}

InitTwice ==
    /\ pc = "generate"
    /\ intent \in TwiceIntents
    /\ dashboard \in {EmptyDashboard,
                       [EmptyDashboard EXCEPT !.components = <<Chart1, Kpi1>>, !.dataset = RowsSample]}
    /\ catalog \in {<<>>, CatalogBoth}
    /\ env \in {ProviderUp, [ProviderUp EXCEPT !.gen = "raise"]}
    /\ text = <<>> /\ llm = LLMReturns(<<>>) /\ command = "" /\ rows = <<>>
    /\ action = NoAction /\ ran = {} /\ history = <<>> /\ Quiet
\* the same generate_action call once more
Repeat ==
    /\ pc = "generated"
    /\ \E e \in SecondProviders : second' = generate_action(intent, dashboard, catalog, e)
    /\ pc' = "repeated"
    /\ UNCHANGED <<text, llm, command, catalog, dashboard, rows, env, intent, action, ran, history,
                   evaluator, req, running, clock, parser>>
NextTwice == Generate \/ Repeat
SpecTwice == InitTwice /\ [][NextTwice]_vars

(***************************************************************************)
(* Spec: a DashboardAgent serving requests                                 *)
(***************************************************************************)
\* what the intent LLM can do with a request
LLMOutcomes ==
    {LLMRaises,
     LLMReturns(<<Prose>>),
     LLMReturns(<<FenceJson, WS>> \o TargetText \o <<WS, Fence>>),
     LLMReturns(<<LB, KeyRemoveNullExplanation, RB>>),
     LLMReturns(<<Prose, LB, KeyAddNullParameters, RB>>),
     LLMReturns(<<LB, KeyAnswer, LB, ParamQuestion, RB, RB>>),
     LLMReturns(<<LB, KeyExplain, RB>>),
     LLMReturns(<<LB, KeyDance, RB>>)}
AgentCommands == {"Bar chart revenue by region", "what is the total revenue", "Remove the last chart"}
AgentProviders == {p \in Providers : p.init = "ok" \/ p.gen = "ok"}

Init ==
    /\ pc = "agent"
    /\ Untouched
Next ==
    \/ \E cmd \in AgentCommands,
          dash \in {EmptyDashboard, [EmptyDashboard EXCEPT !.components = <<Chart1>>]},
          cat \in {<<>>, CatalogBoth}, data \in Datasets, l \in LLMOutcomes, e \in AgentProviders :
            process_command(cmd, dash, cat, data, l, e, MaxHistory)
    \/ clear_history
Spec == Init /\ [][Next]_vars

(***************************************************************************)
(* SpecLog: the Conversation Log over longer runs of one DashboardAgent    *)
(***************************************************************************)
MaxLog == 3
\* the third outcome is an intent on which generate_action raises
LogOutcomes == {LLMRaises, LLMReturns(<<LB, KeyExplain, RB>>), LLMReturns(<<Prose, LB, KeyAddNullParameters, RB>>)}
NextLog ==
    \/ \E cmd \in {"Bar chart revenue by region", "Remove the last chart"}, l \in LogOutcomes :
            process_command(cmd, [EmptyDashboard EXCEPT !.components = <<Chart1>>], CatalogBoth, <<>>,
                            l, ProviderUp, MaxLog)
    \/ clear_history
SpecLog == Init /\ [][NextLog]_vars

(***************************************************************************)
(* SpecRequests: /ai/process requests served by one process, sharing the   *)
(* agent and the evaluator                                                 *)
(***************************************************************************)
MaxRequests == 2
\* a time of 0 stands for None (both are falsy); produced: the intent parse_intent
\* returned inside this request's process_command call, NoIntent when it returned none
NewRequest ==
    [pc |-> "new", command |-> "", columns |-> <<>>, task_id |-> Null, start_time |-> 0,
     produced |-> NoIntent]
\* AgentEvaluator.start_evaluation(task_id, user_command) at time now
start_evaluation(ev, task_id, now) == [ev EXCEPT !.current_task_id = task_id, !.start_time = now]
\* AgentEvaluator.complete_evaluation(user_command, intent, ...) at time now, called by the
\* handler of request r: the result appended to evaluation_history
complete_evaluation(ev, r, user_command, read_back, now) ==
    [ev EXCEPT !.start_time = IF @ = 0 THEN now ELSE @,
               !.evaluation_history =
                   Append(@, [by |-> r, user_command |-> user_command, intent_parsed |-> read_back,
                              task_id |-> IF ev.current_task_id # Null THEN ev.current_task_id
                                          ELSE "task_" \o ToString(now),
                              started |-> IF ev.start_time = 0 THEN now ELSE ev.start_time])]

\* the request bodies: state.datasets[0].columns is not validated, a name may be null
CatalogUnnamed == <<Column(Null, "string"), Column("revenue", "numeric")>>
Bodies ==
    {[command |-> "", columns |-> CatalogBoth],
     [command |-> "Bar chart revenue by region", columns |-> CatalogBoth],
     [command |-> "what is the total revenue", columns |-> CatalogBoth],
     [command |-> "show revenue", columns |-> CatalogUnnamed]}
\* parse_intent raises: the generate call raised and the Rule-Based Matcher, on a
\* visualization command, calls .lower() on a column name that is not a string
ParseRaises(cmd, cat, l) ==
    /\ l.raised
    /\ AnyIn(visualization_keywords, Lower(cmd))
    /\ \E i \in DOMAIN cat : ~IsStr(cat[i].name)

\* process_ai_command is a coroutine without an await: the event loop runs one handler
\* from its first statement to its return before it starts another
\* lines 176-233: the handler starts; an empty command raises inside the outer try
Receive(r, body) ==
    /\ pc = "agent" /\ running = 0 /\ req[r].pc = "new"
    /\ running' = r
    /\ req' = [req EXCEPT ![r].command = body.command, ![r].columns = body.columns,
                          ![r].pc = IF body.command = "" THEN "outer_except" ELSE "start"]
    /\ UNCHANGED <<pc, text, llm, command, catalog, dashboard, rows, env, intent, action, ran, history,
                   second, evaluator, clock, parser>>
\* lines 241-245
StartTracking ==
    /\ running # 0 /\ req[running].pc = "start"
    /\ req' = [req EXCEPT ![running].task_id = uuid4(running, 0), ![running].start_time = clock,
                          ![running].pc = "process"]
    /\ evaluator' = start_evaluation(evaluator, uuid4(running, 0), clock + 1)
    /\ clock' = clock + 2
    /\ ran' = {}
    /\ UNCHANGED <<pc, text, llm, command, catalog, dashboard, rows, env, intent, action, history,
                   second, running, parser>>
\* lines 249-254: agent.process_command(user_command, dashboard_dict, backend_columns, dataset_data)
CallAgent(l) ==
    /\ running # 0 /\ req[running].pc = "process" /\ ran = {}
    /\ ~ParseRaises(req[running].command, req[running].columns, l)
    /\ process_command(req[running].command, [EmptyDashboard EXCEPT !.components = <<Chart1>>],
                       req[running].columns, RowsSample, l, ProviderUp, MaxRequests)
\* the same call when parse_intent raises (agent.py 35-39): last_intent, the log and the
\* dashboard stay as they were
CallAgentRaises(l) ==
    /\ running # 0 /\ req[running].pc = "process" /\ ran = {}
    /\ ParseRaises(req[running].command, req[running].columns, l)
    /\ command' = req[running].command
    /\ catalog' = req[running].columns
    /\ llm' = l
    /\ ran' = StagesRun(l)
    /\ action' = RaisedAction
    /\ UNCHANGED <<pc, text, dashboard, rows, env, intent, history, aux>>
\* lines 257-270 after process_command returned, 387-400 after it raised: the intent is read
\* back from agent.last_intent and the evaluation is recorded
RecordEvaluation ==
    /\ running # 0 /\ req[running].pc = "process" /\ ran # {}
    /\ evaluator' = complete_evaluation(evaluator, running, req[running].command, intent, clock)
    /\ clock' = clock + 1
    /\ req' = [req EXCEPT ![running].pc = "done",
                          ![running].produced =
                              IF ParseRaises(command, catalog, llm) THEN NoIntent ELSE intent]
    /\ running' = 0
    /\ UNCHANGED <<pc, text, llm, command, catalog, dashboard, rows, env, intent, action, ran, history,
                   second, parser>>
\* lines 438-451: the outer except; evaluator and settings are names local to the handler
\* and not yet bound (236-239), so the recording attempt raises and is swallowed
OuterExcept ==
    /\ running # 0 /\ req[running].pc = "outer_except"
    /\ req' = [req EXCEPT ![running].pc = "done"]
    /\ running' = 0
    /\ UNCHANGED <<pc, text, llm, command, catalog, dashboard, rows, env, intent, action, ran, history,
                   second, evaluator, clock, parser>>

InitRequests ==
    /\ pc = "agent"
    /\ text = <<>> /\ llm = LLMReturns(<<>>) /\ command = "" /\ catalog = <<>>
    /\ dashboard = EmptyDashboard /\ rows = <<>> /\ env = ProviderUp /\ intent = NoIntent
    /\ action = NoAction /\ ran = {} /\ history = <<>>
    /\ second = NoAction
    /\ evaluator = [current_task_id |-> Null, start_time |-> 0, evaluation_history |-> <<>>]
    /\ req = [r \in 1..MaxRequests |-> NewRequest]
    /\ running = 0
    /\ clock = 1
    /\ parser = NoParser
NextRequests ==
    \/ \E r \in 1..MaxRequests, body \in Bodies : Receive(r, body)
    \/ StartTracking
    \/ \E l \in LogOutcomes : CallAgent(l)
    \/ \E l \in LogOutcomes : CallAgentRaises(l)
    \/ RecordEvaluation
    \/ OuterExcept
SpecRequests == InitRequests /\ [][NextRequests]_vars

(***************************************************************************)
(* SpecParser: IntentParser() under every provider setting and environment *)
(***************************************************************************)
\* GeminiClient(): raises ValueError without an API key
GeminiClient(p) == IF p.api_key THEN [p EXCEPT !.llm = "GeminiClient"] ELSE [p EXCEPT !.raised = TRUE]
\* OllamaClient(): reads the settings only
OllamaClient(p) == [p EXCEPT !.llm = "OllamaClient"]
\* HuggingFaceClient(): _initialize leaves pipeline None when transformers is missing or
\* the model cannot be loaded, and returns
HuggingFaceClient(p) ==
    [p EXCEPT !.llm = "HuggingFaceClient", !.pipeline = p.TRANSFORMERS_AVAILABLE /\ p.model_loads]
\* IntentParser.__init__
IntentParser_init(p) ==
    IF p.llm_provider = "gemini" /\ p.GEMINI_AVAILABLE
    THEN IF GeminiClient(p).raised THEN OllamaClient(p) ELSE GeminiClient(p)
    ELSE IF p.llm_provider = "ollama" THEN OllamaClient(p)
    ELSE IF p.llm_provider = "huggingface" /\ p.HF_AVAILABLE THEN HuggingFaceClient(p)
    ELSE OllamaClient(p)

InitParser ==
    /\ pc = "construct"
    /\ text = <<>> /\ llm = LLMReturns(<<>>) /\ command = "" /\ catalog = <<>>
    /\ dashboard = EmptyDashboard /\ rows = <<>> /\ env = ProviderUp /\ intent = NoIntent
    /\ action = NoAction /\ ran = {} /\ history = <<>>
    /\ second = NoAction
    /\ evaluator = [current_task_id |-> Null, start_time |-> 0, evaluation_history |-> <<>>]
    /\ req = <<>> /\ running = 0 /\ clock = 1
    /\ parser \in {[NoParser EXCEPT !.pc = "new", !.llm_provider = v, !.GEMINI_AVAILABLE = g,
                                     !.api_key = k, !.HF_AVAILABLE = h,
                                     !.TRANSFORMERS_AVAILABLE = t, !.model_loads = m] :
                        v \in {"gemini", "ollama", "huggingface", "openai"},
                        g \in BOOLEAN, k \in BOOLEAN, h \in BOOLEAN, t \in BOOLEAN, m \in BOOLEAN}
Construct ==
    /\ pc = "construct"
    /\ parser' = [IntentParser_init(parser) EXCEPT !.pc = "constructed"]
    /\ pc' = "constructed"
    /\ UNCHANGED <<text, llm, command, catalog, dashboard, rows, env, intent, action, ran, history,
                   second, evaluator, req, running, clock>>
NextParser == Construct
SpecParser == InitParser /\ [][NextParser]_vars

(***************************************************************************)
(* SpecRank: _generate_answer_question on ranking questions that name the  *)
(* metric revenue and the category region, over bounded row sets           *)
(***************************************************************************)
MaxRows == 3
\* a ranking question and the N it asks for (5 when it gives no integer)
RankQuestions ==
    {[q |-> "Top 2 region by revenue", n |-> 2], [q |-> "top 1 region by revenue", n |-> 1],
     [q |-> "top  10 regions by revenue", n |-> 10], [q |-> "top 0 region by revenue", n |-> 0],
     [q |-> "Which region has the highest revenue", n |-> 5],
     [q |-> "top regions by revenue", n |-> 5]}
RankRow == {[region |-> g, revenue |-> v] : g \in {"east", "west", "north"}, v \in {-5, 10}}
\* seven rows over six regions, two of them with equal sums
RowsWide ==
    <<[region |-> "east", revenue |-> 10], [region |-> "west", revenue |-> 25],
      [region |-> "north", revenue |-> 7], [region |-> "south", revenue |-> 25],
      [region |-> "mid", revenue |-> 1], [region |-> "coast", revenue |-> 3],
      [region |-> "east", revenue |-> 5]>>
RankDatasets == {RowsWide} \cup UNION {[1..k -> RankRow] : k \in 1..MaxRows}
InitRank ==
    /\ pc = "rank"
    /\ intent \in {[NoIntent EXCEPT !.action_type = "answer_question",
                                    !.parameters = [NoParams EXCEPT !.question = r.q]] :
                        r \in RankQuestions}
    /\ dashboard \in {[EmptyDashboard EXCEPT !.dataset = data] : data \in RankDatasets}
    /\ catalog = CatalogBoth
    /\ env \in {ProviderUp, [ProviderUp EXCEPT !.gen = "raise"]}
    /\ text = <<>> /\ llm = LLMReturns(<<>>) /\ command = "" /\ rows = <<>>
    /\ action = NoAction /\ ran = {} /\ history = <<>> /\ Quiet
Rank ==
    /\ pc = "rank"
    /\ action' = _generate_answer_question(dashboard, intent.parameters, intent, catalog, env)
    /\ pc' = "ranked"
    /\ UNCHANGED <<text, llm, command, catalog, dashboard, rows, env, intent, ran, history, aux>>
NextRank == Rank
SpecRank == InitRank /\ [][NextRank]_vars

(***************************************************************************)
(* SpecLayout: the chat route compiling add_chart / remove_chart Intents   *)
(* and applying the Actions to the stored dashboard, one after another     *)
(***************************************************************************)
MaxChats == 4
\* DashboardGenerator.generate_dashboard for a dataset with one numeric and one string
\* column: a KPI card, a bar chart and the data table
AutoComponents ==
    <<[NoComponent EXCEPT !.id = "g1", !.type = "kpi", !.title = "Revenue",
                          !.row = 0, !.col = 0, !.width = 1, !.height = 1],
      [NoComponent EXCEPT !.id = "g2", !.type = "bar_chart", !.title = "Revenue by Region",
                          !.x_axis = "region", !.y_axis = "revenue", !.aggregation = "sum",
                          !.row = 1, !.col = 0, !.width = 2, !.height = 2],
      [NoComponent EXCEPT !.id = "g3", !.type = "table", !.title = "Data Table",
                          !.row = 3, !.col = 0, !.width = 4, !.height = 3]>>
\* component.get('position', {})
Position(c) == [row |-> c.row, col |-> c.col, width |-> c.width, height |-> c.height]
\* "grid": [comp["position"] for comp in components]
AutoDashboard ==
    [EmptyDashboard EXCEPT !.components = AutoComponents,
                           !.grid = [i \in DOMAIN AutoComponents |-> Position(AutoComponents[i])]]

\* comp.update(updates): each key of updates replaces the component's value under that
\* key, the "config" mapping as a whole
Updated(comp, updates) ==
    [comp EXCEPT !.type = IF updates.type # Absent THEN updates.type ELSE @,
                 !.title = IF updates.title # Absent THEN updates.title ELSE @,
                 !.x_axis = IF updates.config THEN updates.x_axis ELSE @,
                 !.y_axis = IF updates.config THEN updates.y_axis ELSE @,
                 !.aggregation = IF updates.config THEN Absent ELSE @]
\* DashboardGenerator.update_component: the first component with the id is updated
update_component(dash, component_id, updates) ==
    LET hits == {i \in DOMAIN dash.components : dash.components[i].id = component_id}
    IN  IF hits = {} THEN dash
        ELSE [dash EXCEPT !.components[CHOOSE i \in hits : \A j \in hits : i <= j] =
                              Updated(@, updates)]
\* DashboardGenerator.add_component
add_component(dash, component) ==
    [dash EXCEPT !.components = Append(@, component), !.grid = Append(@, Position(component))]

RECURSIVE WithoutComponent(_, _)
\* [comp for comp in components if comp['id'] != component_id]
WithoutComponent(comps, component_id) ==
    IF comps = <<>> THEN <<>>
    ELSE (IF Head(comps).id # component_id THEN <<Head(comps)>> ELSE <<>>)
         \o WithoutComponent(Tail(comps), component_id)

\* DashboardGenerator.remove_component: the grid keeps a position when some remaining
\* component has the removed id
remove_component(dash, component_id) ==
    LET remaining == WithoutComponent(dash.components, component_id)
    IN  [dash EXCEPT !.components = remaining,
                     !.grid = IF \E i \in DOMAIN remaining : remaining[i].id = component_id
                              THEN @ ELSE <<>>]

\* "Apply action if successful": the dashboard after the route has applied the Action
apply_action(dash, a) ==
    IF a.raised \/ a.success # "True" THEN dash
    ELSE IF a.action = "add_component" /\ a.component # <<>>
    THEN add_component(dash, a.component[1])
    ELSE IF a.action = "update_component" /\ Truthy(a.component_id) /\ a.updates # NoUpdates
    THEN update_component(dash, a.component_id, a.updates)
    ELSE IF a.action = "remove_component" /\ Truthy(a.component_id)
    THEN remove_component(dash, a.component_id)
    ELSE dash

\* the parameters of the modify_chart Intents: one axis, or the title
LayoutUpdates ==
    {[NoParams EXCEPT !.x_axis = "segment"], [NoParams EXCEPT !.y_axis = "cost"],
     [NoParams EXCEPT !.title = "Sales"]}
\* the Intents the parse stage hands over: add a chart, remove or modify the default
\* component or a component named by its identifier
LayoutIntents(dash) ==
    {[NoIntent EXCEPT !.action_type = "add_chart", !.target_component = Null,
                      !.parameters = [NoParams EXCEPT !.chart_type = "bar_chart"],
                      !.explanation = "Adding bar_chart to dashboard"]}
    \cup {[NoIntent EXCEPT !.action_type = "remove_chart", !.target_component = t,
                           !.parameters = NoParams, !.explanation = "Changing the dashboard"] :
             t \in {Null} \cup {dash.components[i].id : i \in DOMAIN dash.components}}
    \cup {[NoIntent EXCEPT !.action_type = "modify_chart", !.target_component = t,
                           !.parameters = q, !.explanation = "Changing the dashboard"] :
             t \in {Null} \cup {dash.components[i].id : i \in DOMAIN dash.components},
             q \in LayoutUpdates}

InitLayout ==
    /\ pc = "layout"
    /\ dashboard \in {EmptyDashboard, AutoDashboard}
    /\ catalog = CatalogBoth /\ env = ProviderUp /\ intent = NoIntent
    /\ text = <<>> /\ llm = LLMReturns(<<>>) /\ command = "" /\ rows = <<>>
    /\ action = NoAction /\ ran = {} /\ history = <<>> /\ Quiet
\* one chat request: its Action compiled, applied and stored; uuid4 draws anew each time
chat(it) ==
    /\ pc = "layout" /\ clock <= MaxChats
    /\ it \in LayoutIntents(dashboard)
    /\ intent' = it
    /\ action' = generate_action(it, dashboard, catalog, [env EXCEPT !.seed = clock])
    /\ dashboard' = apply_action(dashboard, action')
    /\ clock' = clock + 1
    /\ UNCHANGED <<pc, text, llm, command, catalog, rows, env, ran, history,
                   second, evaluator, req, running, parser>>
NextLayout ==
    \E t \in {Null, "g1", "g2", "g3"} \cup {uuid4(k, 1) : k \in 1..MaxChats},
       a \in {"add_chart", "remove_chart", "modify_chart"},
       q \in LayoutUpdates \cup {NoParams, [NoParams EXCEPT !.chart_type = "bar_chart"]} :
        chat([NoIntent EXCEPT !.action_type = a, !.target_component = t, !.parameters = q,
                              !.explanation = IF a = "add_chart"
                                              THEN "Adding bar_chart to dashboard"
                                              ELSE "Changing the dashboard"])
SpecLayout == InitLayout /\ [][NextLayout]_vars

(***************************************************************************)
(* SpecModify: generate_action on modify_chart Intents against dashboards  *)
(* of every component mix                                                  *)
(***************************************************************************)
Scatter1 == [NoComponent EXCEPT !.id = "s1", !.type = "scatter_chart", !.title = "Revenue vs Cost",
                                !.x_axis = "revenue", !.y_axis = "revenue", !.aggregation = "sum",
                                !.row = 2, !.width = 2, !.height = 2]
ModifyDashboards ==
    {[EmptyDashboard EXCEPT !.components = cs] :
        cs \in {<<>>, <<Chart1>>, <<Kpi1>>, <<Kpi1, Chart1>>, <<Kpi1, Scatter1>>,
                <<Kpi1, Scatter1, Chart1>>}}
ModifyParameters ==
    {NoParams,
     [NoParams EXCEPT !.title = "Sales"], [NoParams EXCEPT !.title = Null],
     [NoParams EXCEPT !.chart_type = "scatter_chart"], [NoParams EXCEPT !.chart_type = "kpi"],
     [NoParams EXCEPT !.chart_type = "", !.type = "pie_chart"],
     [NoParams EXCEPT !.type = "line_chart", !.title = "Trend"],
     [NoParams EXCEPT !.x_axis = "region"], [NoParams EXCEPT !.y_axis = "revenue"],
     [NoParams EXCEPT !.x_axis = "region", !.y_axis = "revenue", !.aggregation = "mean"],
     [NoParams EXCEPT !.aggregation = "mean", !.new_title = "Sales"]}
InitModify ==
    /\ pc = "generate"
    /\ intent \in {[NoIntent EXCEPT !.action_type = "modify_chart", !.target_component = t,
                                    !.parameters = q, !.explanation = "Modifying chart"] :
                        t \in {Null, "c1", "k1"}, q \in ModifyParameters}
    /\ dashboard \in ModifyDashboards
    /\ catalog = CatalogBoth /\ env = ProviderUp
    /\ text = <<>> /\ llm = LLMReturns(<<>>) /\ command = "" /\ rows = <<>>
    /\ action = NoAction /\ ran = {} /\ history = <<>> /\ Quiet
SpecModify == InitModify /\ [][NextGen]_vars

(***************************************************************************)
(* SpecMatch: _rule_based_parse on commands made of the matcher's keywords *)
(***************************************************************************)
\* each keyword of the matcher as a command of its own, and commands mixing them
KeywordCommands ==
    {visualization_keywords[i] : i \in DOMAIN visualization_keywords}
    \cup {"remove", "delete", "drop", "filter", "show only", "top", "change", "modify", "update",
          "switch", "rename"}
    \cup {"Show only east", "only the east", "DROP it", "delete the top one", "Update the filter",
          "rename and switch", "Top 5", "please stop", "hello", ""}
InitMatch ==
    /\ pc = "rules"
    /\ command \in KeywordCommands
    /\ catalog \in {<<>>, CatalogBoth, CatalogDated}
    /\ dashboard = EmptyDashboard
    /\ text = <<>> /\ llm = LLMRaises /\ rows = <<>> /\ env = ProviderUp
    /\ intent = NoIntent /\ action = NoAction /\ ran = {} /\ history = <<>> /\ Quiet
SpecMatch == InitMatch /\ [][NextRules]_vars

(***************************************************************************)
(* SpecBoard: generate_action on generate_dashboard Intents without a      *)
(* widget list, against catalogs of every column mix                       *)
(***************************************************************************)
MaxNumeric == 4
MaxString == 3
\* a catalog of n numeric, s string and d date columns
BoardCatalog(n, s, d) ==
    [i \in 1..n |-> Column("amount_" \o ToString(i), "numeric")]
        \o [i \in 1..s |-> Column("group_" \o ToString(i), "string")]
        \o [i \in 1..d |-> Column("day_" \o ToString(i), "date")]
BoardCatalogs ==
    {BoardCatalog(n, s, d) : n \in 0..MaxNumeric, s \in 0..MaxString, d \in 0..1}
        \cup {CatalogDated, CatalogNumeric}
InitBoard ==
    /\ pc = "generate"
    /\ intent \in {[NoIntent EXCEPT !.action_type = "generate_dashboard", !.target_component = Null,
                                    !.parameters = q, !.explanation = x] :
                        q \in {NoParams, [NoParams EXCEPT !.widgets = WidgetList(<<>>)],
                               [NoParams EXCEPT !.title = "Overview"]},
                        x \in {Absent, "Generating dashboard"}}
    /\ dashboard \in {EmptyDashboard, [EmptyDashboard EXCEPT !.components = <<Chart1, Kpi1>>]}
    /\ catalog \in BoardCatalogs
    /\ env = ProviderUp
    /\ text = <<>> /\ llm = LLMReturns(<<>>) /\ command = "" /\ rows = <<>>
    /\ action = NoAction /\ ran = {} /\ history = <<>> /\ Quiet
SpecBoard == InitBoard /\ [][NextGen]_vars

(***************************************************************************)
(* SpecWidgets: generate_action on generate_dashboard Intents that carry a *)
(* widget list                                                             *)
(***************************************************************************)
MaxWidgets == 4
WidgetSpecs ==
    {[NoWidget EXCEPT !.chart_type = "bar_chart"],
     [NoWidget EXCEPT !.chart_type = "kpi", !.y_axis = "revenue"],
     [NoWidget EXCEPT !.chart_type = "pie_chart", !.title = "Share"]}
InitWidgets ==
    /\ pc = "generate"
    /\ intent \in {[NoIntent EXCEPT !.action_type = "generate_dashboard", !.target_component = Null,
                                    !.parameters = [NoParams EXCEPT !.widgets = WidgetList(ws)],
                                    !.explanation = "Generating dashboard"] :
                        ws \in UNION {[1..n -> WidgetSpecs] : n \in 1..MaxWidgets}}
    /\ dashboard \in {EmptyDashboard, [EmptyDashboard EXCEPT !.components = <<Chart1>>]}
    /\ catalog = CatalogBoth /\ env = ProviderUp
    /\ text = <<>> /\ llm = LLMReturns(<<>>) /\ command = "" /\ rows = <<>>
    /\ action = NoAction /\ ran = {} /\ history = <<>> /\ Quiet
SpecWidgets == InitWidgets /\ [][NextGen]_vars

(***************************************************************************)
(* SpecTypes: generate_action on add_chart and generate_dashboard Intents  *)
(* whose parameters carry any chart_type value                             *)
(***************************************************************************)
\* chart_type values an LLM may emit: the component types, other strings, null, a number
EmittedChartTypes ==
    {Absent, Null, NumV, "bar_chart", "line_chart", "pie_chart", "kpi", "table", "scatter_chart",
     "heatmap", "pie", ""}
InitTypes ==
    /\ pc = "generate"
    /\ intent \in {[NoIntent EXCEPT !.action_type = "add_chart", !.target_component = Null,
                                    !.parameters = [NoParams EXCEPT !.chart_type = t, !.title = h],
                                    !.explanation = "Adding a chart"] :
                        t \in EmittedChartTypes, h \in {Absent, "Overview"}}
                   \cup
                   {[NoIntent EXCEPT !.action_type = "generate_dashboard", !.target_component = Null,
                                     !.parameters =
                                        [NoParams EXCEPT !.widgets =
                                            WidgetList(<<[NoWidget EXCEPT !.chart_type = t, !.title = h]>>)],
                                     !.explanation = "Generating dashboard"] :
                        t \in EmittedChartTypes, h \in {Absent, "Overview"}}
    /\ dashboard = EmptyDashboard
    /\ catalog \in {<<>>, CatalogBoth, CatalogDated}
    /\ env = ProviderUp
    /\ text = <<>> /\ llm = LLMReturns(<<>>) /\ command = "" /\ rows = <<>>
    /\ action = NoAction /\ ran = {} /\ history = <<>> /\ Quiet
SpecTypes == InitTypes /\ [][NextGen]_vars

(***************************************************************************)
(* Properties                                                              *)
(***************************************************************************)
Discriminators ==
    {"add_component", "update_component", "remove_component", "add_multiple_components",
     "apply_filter", "apply_transformation", "explain_chart", "answer_question"}
IsBool(v) == v \in {"True", "False"}
NameSet(names) == {names[i] : i \in DOMAIN names}

C2_GenerateActionNeverRaises ==
    pc = "generated" => (~action.raised /\ IsBool(action.success))

\* C3: every Action generate_action returns has a boolean success and a string
\* explanation, carries an action discriminator (one of the eight) exactly when success
\* is true, and an error code exactly when success is false.
C3_ActionIsWellFormed ==
    (pc = "generated" /\ ~action.raised) =>
        /\ IsBool(action.success)
        /\ IsStr(action.explanation)
        /\ action.action # Absent <=> action.success = "True"
        /\ action.action # Absent => action.action \in Discriminators
        /\ action.error # Absent <=> action.success = "False"

\* the catalog describes the rows: every column it names is a field of the rows
CatalogOfRows(cat, data) == \A i \in DOMAIN cat : cat[i].name \in DfColumns(data)
\* the question _generate_answer_question reads from the intent
QuestionOf(it) ==
    IF Truthy(Get(it.parameters.question, "")) THEN it.parameters.question
    ELSE Get(it.explanation, "")

\* C4: for an answer_question intent with at least one dataset row, whenever the narrative
\* LLM is unavailable (its client cannot be constructed, or its generate call fails) the
\* Action is still success=true, action=answer_question, with the explanation assembled
\* from the locally computed analysis result.
C4_AnswerSurvivesProviderFailure ==
    (/\ pc = "generated"
     /\ intent.action_type = "answer_question"
     /\ IsDict(intent.parameters) /\ IsStr(QuestionOf(intent))
     /\ dashboard.dataset # <<>> /\ CatalogOfRows(catalog, dashboard.dataset)
     /\ (env.init = "raise" \/ env.gen = "raise")) =>
        /\ action.success = "True"
        /\ action.action = "answer_question"
        /\ action.explanation = FallbackAnswer(action.analysis)

\* the positions at which the target object's text starts in a response
TargetStarts(s) == {i \in 1..Len(s) : i + 4 <= Len(s) /\ SubSeq(s, i, i + 4) = TargetText}
Embeds(s) == TargetStarts(s) # {}
FirstTargetStart(s) == CHOOSE i \in TargetStarts(s) : \A j \in TargetStarts(s) : i <= j
\* a JSON object with an action_type key lies in the text before position i
TypedObjectBefore(s, i) ==
    \E j \in 1..(i - 1), k \in 1..(i - 1) :
        /\ j < k
        /\ JsonLoads(SubSeq(s, j, k)).ok
        /\ JsonLoads(SubSeq(s, j, k)).val.action_type # Absent

NoBraces(s) == \A i \in DOMAIN s : ~IsBrace(s[i])
\* C6: for every response text with no "{" and no "}" the extractor returns the sentinel
\* Intent: action_type "unknown", target_component null, parameters {} and an
\* explanation asking to rephrase; it never raises.
C6_NoBracesYieldsSentinel ==
    (pc = "extracted" /\ NoBraces(text)) =>
        /\ intent.action_type = "unknown"
        /\ intent.target_component = Null
        /\ intent.parameters = NoParams
        /\ IsSubstr("try rephrasing", intent.explanation)
C6_Witness ==
    /\ pc = "extracted"
    /\ text = <<FenceJson, KeyAdd, Fence>>
    /\ intent = UnknownSentinel

RequiredKeys == {"action_type", "target_component", "explanation"}
\* C7: for every input mapping the validator's output has action_type, target_component,
\* parameters and explanation present and an action_type among the 11 recognized values;
\* an unrecognized action_type becomes "unknown" and the explanation is overwritten with
\* the list of valid values.
C7_ValidatorNormalises ==
    [][pc = "validate" =>
        /\ \A k \in RequiredKeys : intent'[k] # Absent
        /\ intent'.parameters.kind # Absent
        /\ intent'.action_type \in ValidActionSet
        /\ (intent.action_type # Absent /\ intent.action_type \notin ValidActionSet) =>
              /\ intent'.action_type = "unknown"
              /\ intent'.explanation = "Unknown action type. Available: " \o Join(valid_actions, ", ")
        /\ intent.action_type \in ValidActionSet => intent'.action_type = intent.action_type]_vars
C7_Witness ==
    /\ pc = "validated"
    /\ intent.action_type = "unknown"
    /\ IsSubstr("Available: generate_dashboard, add_chart", intent.explanation)
    /\ intent.target_component = Null
    /\ intent.parameters = NoParams

C9_RemoveOnEmptyDashboardFails ==
    (pc = "generated" /\ intent.action_type = "remove_chart" /\ dashboard.components = <<>>) =>
        /\ action.success = "False"
        /\ action.error = "No component to remove"

\* C10: every generate_dashboard Intent, whatever its parameters (an explicit widget list
\* included), compiled against an empty catalog yields success=true with
\* action=add_multiple_components and an empty components list.
C10_EmptyCatalogYieldsEmptyDashboard ==
    (/\ pc = "generated"
     /\ intent.action_type = "generate_dashboard"
     /\ IsDict(intent.parameters)
     /\ catalog = <<>>) =>
        /\ action.success = "True"
        /\ action.action = "add_multiple_components"
        /\ action.components = <<>>

\* component c with its identifier blanked
WithoutId(c) == [c EXCEPT !.id = ""]
\* the Action a, a returned mapping, with the identifiers of its new components blanked
\* (llm_calls is the model's count of gateway calls, not a key of the mapping)
UpToIds(a) ==
    [a EXCEPT !.component = [i \in DOMAIN @ |-> WithoutId(@[i])],
              !.components = [i \in DOMAIN @ |-> WithoutId(@[i])],
              !.llm_calls = 0]
\* the handler generate_action hands the intent to
DispatchedAs(it) ==
    IF GetN(it.action_type) = "unknown" /\ IsStr(Get(it.explanation, "")) /\ LooksLikeQuestion(it)
    THEN "answer_question"
    ELSE GetN(it.action_type)
Analytical == {"answer_question", "explain_chart"}

\* C11 as stated: two generate_action calls with identical (Intent, Dashboard, Catalog)
\* return Actions equal in every field except the ids of newly generated components, for
\* every action type of the vocabulary.
C11_RepeatedCallsAgree ==
    pc = "repeated" => UpToIds(second) = UpToIds(action)
\* C11 amended: the two Actions are equal up to the ids of new components for every intent
\* that is not handed to the answer_question or explain_chart handler.
C11_RepeatedCallsAgreeOutsideAnalysis ==
    (pc = "repeated" /\ DispatchedAs(intent) \notin Analytical) => UpToIds(second) = UpToIds(action)
C11_Witness ==
    /\ pc = "repeated"
    /\ intent.action_type = "generate_dashboard"
    /\ catalog = CatalogBoth
    /\ Len(action.components) > 1
    /\ action.components[1].id # second.components[1].id
    /\ UpToIds(second) = UpToIds(action)

\* s, lower-cased, contains one of the question indicators
HasIndicator(s) ==
    IsStr(s) /\ \E i \in DOMAIN question_indicators : IsSubstr(question_indicators[i], Lower(s))
\* the Action is what the answer_question handler returns, not the unknown-action failure
HandledAsQuestion(a) ==
    /\ ~a.raised
    /\ \/ a.action = "answer_question"
       \/ a.success = "False" /\ a.error # "Unknown action type"

\* C12: whenever the intent reaching generate_action has action_type "unknown" and the
\* user's original command or the intent's explanation contains a question indicator, the
\* intent is dispatched as answer_question rather than returned as an unknown-action
\* failure, for intents of the LLM path and of the Rule-Based Matcher alike.
C12_UnknownQuestionsAreRescued ==
    (/\ ran # {}
     /\ intent.action_type = "unknown"
     /\ (HasIndicator(command) \/ HasIndicator(intent.explanation))) =>
        HandledAsQuestion(action)

\* C13: for an answer_question or explain_chart intent compiled when no dataset rows are
\* available, the Action is a failure with the no-data error and no LLM Gateway call is
\* made for the answer.
C13_NoRowsNoAnswer ==
    (pc = "generated" /\ intent.action_type \in Analytical /\ dashboard.dataset = <<>>) =>
        /\ action.success = "False"
        /\ action.error = "No data available"
        /\ action.llm_calls = 0

\* C14: when the LLM Gateway returns a text from which no intent object can be decoded
\* (here: a text without braces), the intent parse_intent produces is the Rule-Based
\* Matcher's intent for the user's command.
C14_UnparseableFallsBackToRules ==
    (ran # {} /\ ~llm.raised /\ NoBraces(llm.text)) =>
        /\ "rules" \in ran
        /\ [intent EXCEPT !.user_command = Absent] = _rule_based_parse(command, dashboard, catalog)

\* the log entry of the request just served
Entry == [user_command |-> command, intent |-> intent, action |-> action]
\* C15: the Conversation Log is the list of (user_command, intent, action) triples of the
\* commands processed since the last clear, one entry per command in arrival order:
\* every step either empties the log (clear_history), or appends exactly the triple of the
\* command process_command has just answered and leaves all earlier entries as they were;
\* a process_command call that raises leaves the log as it was.
C15_LogIsAppendOnly ==
    [][\/ history' = <<>> /\ UNCHANGED <<command, intent, action>>
       \/ ~action'.raised /\ history' = Append(history, Entry')
       \/ action'.raised /\ history' = history]_vars
C15_Witness ==
    /\ Len(history) = 3
    /\ history[3] = Entry
    /\ history[1].user_command = "Remove the last chart"
    /\ history[1].action.action = "add_component"
    /\ history[2].action.action = "explain_chart"
    /\ command = "Bar chart revenue by region"

\* the requests other than r that have called start_evaluation
OthersTracked(r) == {o \in DOMAIN req : o # r /\ req[o].task_id # Null}
\* C16: under any interleaving of two requests that use the shared agent, nothing a
\* request writes other than the Conversation Log reaches the other: no evaluation a
\* request records carries the task id or the start time of the other request's
\* start_evaluation call, and the intent it read back after its process_command call is
\* the one produced for its own command (the empty intent when none was produced).
C16_RequestsSeeOnlyTheirOwn ==
    \A i \in DOMAIN evaluator.evaluation_history :
        LET rec == evaluator.evaluation_history[i]
        IN  /\ \A o \in OthersTracked(rec.by) :
                  rec.task_id # req[o].task_id /\ rec.started # req[o].start_time + 1
            /\ rec.intent_parsed \in {NoIntent, req[rec.by].produced}

\* the preferred provider's client can be brought up in this environment
PreferredInitializes(p) ==
    CASE p.llm_provider = "gemini" -> p.GEMINI_AVAILABLE /\ p.api_key
      [] p.llm_provider = "ollama" -> TRUE
      [] p.llm_provider = "huggingface" ->
            p.HF_AVAILABLE /\ p.TRANSFORMERS_AVAILABLE /\ p.model_loads
      [] OTHER -> FALSE

\* C17: for every configured provider and every combination of provider availability, if
\* the preferred provider cannot initialize, the constructed parser holds the default
\* provider (Ollama), and construction does not fail.
C17_FallsBackToOllama ==
    pc = "constructed" =>
        /\ ~parser.raised
        /\ ~PreferredInitializes(parser) => parser.llm = "OllamaClient"

\* C18: a "top N" question naming the metric and the category gets min(N, distinct
\* categories) entries (N = 5 without an integer), one per category, each the sum of
\* the metric over the category's rows, largest first, and no category left out has
\* a larger sum than one kept
C18_TopItemsAreTheLargestSums ==
    pc = "ranked" =>
        \A r \in RankQuestions :
            intent.parameters.question = r.q =>
                LET items == action.analysis.top_items
                    data == dashboard.dataset
                    cats == {data[i].region : i \in DOMAIN data}
                    total(c) == SumWhere(data, "region", c, "revenue")
                    kept == {items[i][1] : i \in DOMAIN items}
                IN  /\ action.success = "True"
                    /\ Len(items) = IF r.n < Cardinality(cats) THEN r.n ELSE Cardinality(cats)
                    /\ kept \subseteq cats /\ Cardinality(kept) = Len(items)
                    /\ \A i \in DOMAIN items : items[i][2] = total(items[i][1])
                    /\ \A i \in DOMAIN items : \A j \in DOMAIN items :
                            i < j => items[i][2] >= items[j][2]
                    /\ \A c \in cats \ kept : \A i \in DOMAIN items : total(c) <= items[i][2]
\* two of six categories are kept, the two with equal largest sums, four are left out
C18_Witness ==
    /\ pc = "ranked" /\ dashboard.dataset = RowsWide
    /\ intent.parameters.question = "Top 2 region by revenue"
    /\ {action.analysis.top_items[i] : i \in DOMAIN action.analysis.top_items}
           = {<<"south", 25>>, <<"west", 25>>}
\* no integer in the question: five of six categories are kept
C18_WitnessDefault ==
    /\ pc = "ranked" /\ dashboard.dataset = RowsWide
    /\ intent.parameters.question = "top regions by revenue"
    /\ Len(action.analysis.top_items) = 5 /\ action.analysis.top_items[5] = <<"coast", 3>>

\* C19: a remove_chart Intent compiles to the removal of its target_component when it
\* names one, otherwise of the last component of the dashboard, and to the
\* no-component failure when the dashboard has no components either
C19_RemoveTargetResolution ==
    (pc = "generated" /\ intent.action_type = "remove_chart") =>
        LET given == intent.target_component \notin {Absent, Null, ""}
            n == Len(dashboard.components)
        IN  /\ ~action.raised
            /\ (given \/ n > 0) =>
                    /\ action.success = "True" /\ action.action = "remove_component"
                    /\ action.component_id = IF given THEN intent.target_component
                                             ELSE dashboard.components[n].id
            /\ (~given /\ n = 0) =>
                    action.success = "False" /\ action.error = "No component to remove"
\* no target named, two components: the second one is removed
C19_Witness ==
    /\ pc = "generated" /\ intent.action_type = "remove_chart"
    /\ intent.target_component = Null /\ dashboard.components = <<Chart1, Kpi1>>
    /\ action.success = "True" /\ action.action = "remove_component" /\ action.component_id = "k1"
\* a target named that is not the last component: the named one is removed
C19_WitnessExplicit ==
    /\ pc = "generated" /\ intent.action_type = "remove_chart"
    /\ intent.target_component = "c1" /\ dashboard.components = <<Chart1, Kpi1>>
    /\ action.success = "True" /\ action.component_id = "c1"
\* the one-component dashboard: its only component is removed
C19_WitnessOne ==
    /\ pc = "generated" /\ intent.action_type = "remove_chart"
    /\ intent.target_component = Null /\ dashboard.components = <<Chart1>>
    /\ action.success = "True" /\ action.action = "remove_component" /\ action.component_id = "c1"

\* the grid cells a component covers
Cells(c) == (c.row .. c.row + c.height - 1) \X (c.col .. c.col + c.width - 1)
\* C20: whatever the dashboard a sequence of add_chart and remove_chart requests starts
\* from, each component added is at column 0, two wide and two high, in a row below
\* the row of every component already there, and covers no cell an existing one covers
C20_AddedBelowEverything ==
    [][(action'.action = "add_component"
            /\ Len(dashboard'.components) = Len(dashboard.components) + 1) =>
        LET new == dashboard'.components[Len(dashboard'.components)]
        IN  /\ new.col = 0 /\ new.width = 2 /\ new.height = 2
            /\ \A i \in DOMAIN dashboard.components :
                    /\ new.row > dashboard.components[i].row
                    /\ Cells(new) \cap Cells(dashboard.components[i]) = {}]_vars

\* the axis an add_chart Intent resolves to: its parameter if set, else the first
\* column of the kind, else unresolved (Null)
ResolvedAxis(given, cols) ==
    IF Truthy(GetN(given)) THEN given ELSE IF cols # <<>> THEN cols[1] ELSE Null
\* C21: an add_chart Intent for a bar or line chart succeeds exactly when both axes
\* resolve (parameter if set, else first string column for x, first numeric column for
\* y); the component then carries those axes and the aggregation (sum by default);
\* otherwise a failure Action without a component is returned
C21_AxesResolveOrFail ==
    (/\ pc = "generated" /\ intent.action_type = "add_chart" /\ IsDict(intent.parameters)
     /\ Get(intent.parameters.chart_type, "bar_chart") \in {"bar_chart", "line_chart"}) =>
        LET x == ResolvedAxis(intent.parameters.x_axis, NamesOfType(catalog, {"string"}))
            y == ResolvedAxis(intent.parameters.y_axis, NamesOfType(catalog, {"numeric"}))
        IN  /\ ~action.raised
            /\ action.success = "True" <=> (x # Null /\ y # Null)
            /\ action.success = "True" =>
                    /\ Len(action.component) = 1
                    /\ action.component[1].x_axis = x /\ action.component[1].y_axis = y
                    /\ action.component[1].aggregation = Get(intent.parameters.aggregation, "sum")
            /\ action.success # "True" => action.success = "False" /\ action.component = <<>>

\* the closed chart-type set a modify_chart update may name
ChartTypes == {"bar_chart", "line_chart", "pie_chart", "scatter_chart"}
\* the update fields a modify_chart Intent's parameters carry
RecognizedUpdates(parameters) ==
    [NoUpdates EXCEPT
        !.type = IF (IF Truthy(GetN(parameters.chart_type)) THEN parameters.chart_type
                     ELSE GetN(parameters.type)) \in ChartTypes
                 THEN (IF Truthy(GetN(parameters.chart_type)) THEN parameters.chart_type
                       ELSE parameters.type)
                 ELSE Absent,
        !.title = parameters.title,
        !.config = parameters.x_axis # Absent \/ parameters.y_axis # Absent,
        !.x_axis = parameters.x_axis, !.y_axis = parameters.y_axis]
\* the component a modify_chart Intent is about: the named one, else the first chart,
\* else the first component, else none (Null)
ExpectedModifyTarget(chart_types) ==
    LET cs == dashboard.components
        charts == {i \in DOMAIN cs : cs[i].type \in chart_types}
    IN  IF Truthy(GetN(intent.target_component)) THEN intent.target_component
        ELSE IF charts # {} THEN cs[CHOOSE i \in charts : \A j \in charts : i <= j].id
        ELSE IF cs # <<>> THEN cs[1].id
        ELSE Null
ModifyAsClaimed(chart_types) ==
    (pc = "generated" /\ intent.action_type = "modify_chart") =>
        LET target == ExpectedModifyTarget(chart_types)
            expected == RecognizedUpdates(intent.parameters)
        IN  /\ ~action.raised
            /\ target = Null => action.success = "False" /\ action.error = "No component to modify"
            /\ target # Null =>
                /\ action.success = "True" <=> expected # NoUpdates
                /\ action.success = "True" =>
                        /\ action.action = "update_component"
                        /\ action.component_id = target /\ action.updates = expected
                /\ action.success # "True" => action.error = "No valid updates specified"
\* C22: a modify_chart Intent targets the named component, else the first chart-type
\* component in list order, else the first component, else fails with no component to
\* modify; with a target it succeeds exactly when the parameters carry a chart type of
\* the closed set, a title, an x_axis or a y_axis, and the updates hold only those
C22_ModifyTargetAndUpdates == ModifyAsClaimed(ChartTypes)

\* the matcher's rules in their order: the keywords of a rule and its action type
RuleTable ==
    <<[keywords |-> {visualization_keywords[i] : i \in DOMAIN visualization_keywords},
       action_type |-> "add_chart"],
      [keywords |-> {"remove", "delete", "drop"}, action_type |-> "remove_chart"],
      [keywords |-> {"filter", "show only", "top"}, action_type |-> "filter_data"],
      [keywords |-> {"change", "modify", "update", "switch"}, action_type |-> "modify_chart"],
      [keywords |-> {"rename"}, action_type |-> "rename_component"]>>
RuleMatches(r, cl) == \E k \in RuleTable[r].keywords : IsSubstr(k, cl)
\* the action type of the first rule with a keyword in the command, unknown if none
FirstRule(cl) ==
    IF \E r \in DOMAIN RuleTable : RuleMatches(r, cl)
    THEN RuleTable[CHOOSE r \in DOMAIN RuleTable :
                       RuleMatches(r, cl) /\ \A q \in 1..(r - 1) : ~RuleMatches(q, cl)].action_type
    ELSE "unknown"
FieldsPresent(it) ==
    /\ it.action_type # Absent /\ it.target_component # Absent
    /\ it.parameters.kind = "dict" /\ it.explanation # Absent
\* the Rule-Based Matcher classifies by the first rule, in the fixed order, with a
\* keyword in the lower-cased command, and returns all four Intent fields
FirstRuleWins ==
    pc = "ruled" => intent.action_type = FirstRule(Lower(command)) /\ FieldsPresent(intent)
\* a command that is one of a rule's keywords gets that rule's action type
KeywordLeadsToItsRule(except) ==
    pc = "ruled" =>
        \A r \in DOMAIN RuleTable :
            command \in RuleTable[r].keywords \ except => intent.action_type = RuleTable[r].action_type
\* C23: the Rule-Based Matcher classifies every command by the first matching rule of
\* the fixed order (visualization, remove, filter, modify, rename, else unknown), returns
\* all four Intent fields, and each listed keyword leads to its rule's action type
C23_FirstRuleAndEveryKeyword == FirstRuleWins /\ KeywordLeadsToItsRule({})

Min(a, b) == IF a < b THEN a ELSE b
\* no two of the components cover a common grid cell
NoOverlap(cs) == \A i \in DOMAIN cs : \A j \in DOMAIN cs : i < j => Cells(cs[i]) \cap Cells(cs[j]) = {}
\* C24: generate_dashboard without a widget list yields, in this order, min(3, #numeric)
\* KPI cards (4 wide, 1 high), then min(2, #string) bar charts against the first numeric
\* column when there is one (6 wide, 2 high), then a line chart when a date and a
\* numeric column exist; each within the 12 columns, no two overlapping
C24_IntelligentLayout ==
    (pc = "generated" /\ intent.action_type = "generate_dashboard") =>
        LET cs == action.components
            numeric == NamesOfType(catalog, {"numeric"})
            string == NamesOfType(catalog, {"string"})
            date == NamesOfType(catalog, {"date"})
            k == Min(3, Len(numeric))
            b == IF numeric # <<>> THEN Min(2, Len(string)) ELSE 0
            l == IF date # <<>> /\ numeric # <<>> THEN 1 ELSE 0
        IN  /\ action.success = "True" /\ action.action = "add_multiple_components"
            /\ Len(cs) = k + b + l
            /\ \A i \in 1..k :
                    /\ cs[i].type = "kpi" /\ cs[i].width = 4 /\ cs[i].height = 1
                    /\ cs[i].y_axis = numeric[i]
            /\ \A i \in 1..b :
                    /\ cs[k + i].type = "bar_chart" /\ cs[k + i].width = 6 /\ cs[k + i].height = 2
                    /\ cs[k + i].x_axis = string[i] /\ cs[k + i].y_axis = numeric[1]
            /\ l = 1 =>
                    /\ cs[k + b + 1].type = "line_chart"
                    /\ cs[k + b + 1].x_axis = date[1] /\ cs[k + b + 1].y_axis = numeric[1]
            /\ \A i \in DOMAIN cs : cs[i].col >= 0 /\ cs[i].col + cs[i].width <= 12
            /\ NoOverlap(cs)
\* three KPI cards fill a row, two bar charts the next two rows, the line chart wraps again
C24_Witness ==
    /\ pc = "generated" /\ intent.action_type = "generate_dashboard"
    /\ Len(NamesOfType(catalog, {"numeric"})) > 3 /\ Len(NamesOfType(catalog, {"string"})) > 2
    /\ Len(action.components) = 6
    /\ action.components[3].col = 8 /\ action.components[5].col = 6
    /\ action.components[6].type = "line_chart" /\ action.components[6].col = 0
    /\ action.components[6].row = action.components[5].row + 2
\* one KPI card and two bar charts: the second bar chart does not fit beside the first
C24_WitnessWrap ==
    /\ pc = "generated" /\ intent.action_type = "generate_dashboard"
    /\ Len(action.components) = 3 /\ action.components[2].col = 4
    /\ action.components[3].type = "bar_chart" /\ action.components[3].col = 0
    /\ action.components[3].row = action.components[2].row + 2

\* the i-th widget (from 0) of a widget list is (i mod 3) * 4 columns in and i div 3
\* rows below the existing component count, 4 wide, 2 high or 1 for a KPI
WidgetPositions ==
    (pc = "generated" /\ action.success = "True") =>
        /\ Len(action.components) = Len(intent.parameters.widgets.items)
        /\ \A k \in DOMAIN action.components :
                /\ action.components[k].col = ((k - 1) % 3) * 4
                /\ action.components[k].row = Len(dashboard.components) + ((k - 1) \div 3)
                /\ action.components[k].width = 4
                /\ action.components[k].height =
                        IF intent.parameters.widgets.items[k].chart_type = "kpi" THEN 1 ELSE 2
\* C25: the components generate_dashboard produces from an explicit widget list, placed
\* three per row, never overlap one another, whatever the number and mix of widgets
C25_WidgetsNeverOverlap ==
    pc = "generated" =>
        /\ action.success = "True" /\ action.action = "add_multiple_components"
        /\ WidgetPositions
        /\ NoOverlap(action.components)

\* C26: whenever process_command is given dataset rows and the command is handled as
\* answer_question, the rescue of an unknown intent included, the handler receives those
\* rows (the first 500) and does not fail with the no-data error
C26_QuestionsGetTheRows ==
    (/\ ran # {} /\ rows # <<>> /\ ~action.raised
     /\ DispatchedAs(intent) = "answer_question") =>
        /\ dashboard.dataset = FirstN(rows, AnswerLimit)
        /\ action.error # "No data available"

\* C27: every successful update_component or remove_component Action names the id of a
\* component of the dashboard it was compiled against
C27_TargetIsInTheDashboard ==
    (/\ pc = "generated" /\ ~action.raised /\ action.success = "True"
     /\ action.action \in {"update_component", "remove_component"}) =>
        \E i \in DOMAIN dashboard.components : dashboard.components[i].id = action.component_id

\* the closed Component type set
ComponentTypes == {"bar_chart", "line_chart", "pie_chart", "kpi", "table", "scatter_chart"}
EmittedBy(a) == {a.component[i] : i \in DOMAIN a.component} \cup {a.components[i] : i \in DOMAIN a.components}
\* C28: every component an add_chart or generate_dashboard Action carries has a type of
\* the closed Component type set, whatever chart_type the Intent's parameters carry
C28_ComponentTypeIsClosed ==
    pc = "generated" => \A c \in EmittedBy(action) : c.type \in ComponentTypes

\* the Action of this step is a modify_chart update that sets one axis and nothing else
SetsOneAxis(a) ==
    /\ ~a.raised /\ a.success = "True" /\ a.action = "update_component"
    /\ a.updates.type = Absent /\ a.updates.title = Absent /\ a.updates.value = Absent
    /\ (a.updates.x_axis = Absent) # (a.updates.y_axis = Absent)
\* C29: applying a modify_chart Action that sets only x_axis (or only y_axis) changes
\* that axis of the target component and nothing else: its other axis, aggregation and
\* remaining fields, and every other component, stay as they were
C29_UpdateChangesOnlyWhatItNames ==
    [][SetsOneAxis(action') =>
        /\ Len(dashboard'.components) = Len(dashboard.components)
        /\ \A i \in DOMAIN dashboard.components :
            LET old == dashboard.components[i]
                new == dashboard'.components[i]
            IN  IF old.id = action'.component_id
                THEN new = [old EXCEPT
                               !.x_axis = IF action'.updates.x_axis # Absent
                                          THEN action'.updates.x_axis ELSE @,
                               !.y_axis = IF action'.updates.y_axis # Absent
                                          THEN action'.updates.y_axis ELSE @]
                ELSE new = old]_vars
\* every other component is left as it was by an update
OthersUnchanged ==
    [][(~action'.raised /\ action'.action = "update_component") =>
        /\ Len(dashboard'.components) = Len(dashboard.components)
        /\ \A i \in DOMAIN dashboard.components :
                dashboard.components[i].id # action'.component_id =>
                    dashboard'.components[i] = dashboard.components[i]]_vars

\* C30: after any sequence of add_component and remove_component calls on a dashboard
\* whose grid starts with one position per component, the grid holds exactly the
\* positions of the remaining components, one each
C30_GridMatchesComponents ==
    pc = "layout" =>
        /\ Len(dashboard.grid) = Len(dashboard.components)
        /\ \A i \in DOMAIN dashboard.components :
                dashboard.grid[i] = Position(dashboard.components[i])

====
